---------------------------- MODULE Spec2Model ----------------------------
(***************************************************************************)
(* Verification model of the gastown execution core:                       *)
(*   - the tool executor's worktree sandbox (internal/agentloop/executor)  *)
(*   - the think-act-observe agent loop and its context manager            *)
(***************************************************************************)
EXTENDS Integers, Sequences, FiniteSets, TLC

(***************************************************************************)
(* Bounds of the model                                                     *)
(***************************************************************************)
\* longest path argument (in components) handed to a file tool
MaxPathLen == 3
\* number of tool invocations explored against one file system
MaxFsOps == 1
\* symlink hops followed before EvalSymlinks gives up ("too many links")
MaxLinkHops == 4
\* AgentLoopConfig.MaxIterations of the modelled loop
MaxIterations == 4
\* AgentLoopConfig.MaxTokensPerTask of the modelled loop
MaxTokensPerTask == 2
\* most tool calls the stub model puts in one response
MaxToolCalls == 2
\* goroutines calling AssignWork, and calls each of them makes
NumCallers == 2
MaxAssigns == 1
\* AgentLoopConfig.MaxIterations and calls per response where the loop runs
\* together with concurrent AssignWork and Stop callers
ConcMaxIterations == 2
ConcMaxToolCalls == 1
\* ModelInfo.ContextWindow reported by the stub client
ContextWindow == 100
\* write relays in the configuration
NumRelays == 2
\* calls of Publish / PublishReplaceable, and of Drain
MaxPublishes == 2
MaxDrains == 2
\* Spool.hardLimit (DefaultSpoolHardLimit in the code, scaled down)
HardLimit == 1
\* the clock advances by TickStep seconds, up to MaxNow
TickStep == 30
MaxNow == 30
\* largest retry count handed to WithRetry
MaxRetries == 2
\* events handed to the publisher in a run
MaxHanded == 2
\* lifecycle events of one heartbeat publisher, and calls of its setters
MaxHbEvents == 5
MaxHbSets == 2
\* requests served by the MCP server in a run
MaxRequests == 2
\* subprocesses run by tool calls in a run
MaxRuns == 2
\* file_edit and file_write calls on contents in a run
MaxEdits == 2
\* largest number of failed attempts of an entry in the spool at the start
MaxAttempts == 5
\* calls of spool methods in a run of the goroutines, and the hard limit of
\* that spool (DefaultSpoolHardLimit in the code, scaled down)
MaxSpoolCalls == 3
StepHardLimit == 3
\* calls of RelayPool.Reconnect in a run
MaxReconnects == 2
\* longest conversation handed to Truncate, and calls of Truncate in a run
MaxConvLen == 8
MaxTruncates == 2

VARIABLES
    \* ---- executor / worktree sandbox ----
    workDir,     \* Executor.workDir, an absolute path (sequence of components)
    fs,          \* the file system: real path -> [kind, target]
    written,     \* real locations created or modified by a tool so far
    readFrom,    \* real locations whose content a tool has read so far
    toolRes,     \* outcome of the last file tool call
    fsOps,       \* number of file tool calls made
    \* ---- agent loop: fields of AgentLoop ----
    hasSystemPrompt, \* l.config.SystemPrompt != ""
    state,       \* l.state
    currentTask, \* l.currentTask
    iteration,   \* l.iteration
    totalTokens, \* l.totalTokens
    lastError,   \* l.lastError
    workCh,      \* l.workCh, a buffered channel
    cancelled,   \* the loop context is done
    doneClosed,  \* l.done is closed
    \* ---- agent loop: the driver goroutine (Start / runTask) ----
    dpc,         \* position of the driver
    task,        \* the task received from workCh
    messages,    \* the conversation of runTask
    iterI,       \* loop index i of runTask
    calls,       \* resp.ToolCalls of the current response
    callJ,       \* index of the tool call being handled (1-based)
    taskErr,     \* the error runTask returns
    idleFired,   \* the idle timer has fired since it was last reset
    \* ---- agent loop: callers of AssignWork and Stop ----
    apc,         \* position of each AssignWork caller
    ares,        \* result of each caller's last call
    acount,      \* calls each caller has made
    spc,         \* position of the Stop caller
    sres,        \* result of Stop
    \* ---- observations of the run ----
    sent,        \* the conversation last passed to client.Chat
    chatCalls,   \* client.Chat calls of this task
    execLog,     \* ids of the calls executed for the current response
    callbacks,   \* invocations of OnTaskComplete
    heartbeats,  \* invocations of OnHeartbeat
    started,     \* tasks the driver has begun to run
    lastResp,    \* the response runTask is handling, until its first tool call
    lastExec,    \* what the last Execute call of this task returned
    \* ---- nostr: RelayPool, the relays, the signer ----
    writeRelays, \* p.writeRelays, the relays connected at construction
    poolClosed,  \* p.closed
    accepting,   \* the relays that accept an event offered to them now
    received,    \* per relay, the ids of the events it accepted, in order
    offers,      \* relays the last RelayPool.Publish call offered its event to
    poolRes,     \* what the last RelayPool.Publish call returned
    signCalls,   \* calls of signer.Sign so far
    \* ---- nostr: Publisher ----
    inflight,    \* the Publish call whose broadcast failed, before Enqueue
    pubCalls,    \* calls of Publish / PublishReplaceable so far
    pubRes,      \* the last call that returned, and what it returned
    \* ---- nostr: Spool ----
    spoolFile,   \* lines of nostr-spool.jsonl
    archiveFile, \* lines of nostr-spool-archive.jsonl
    now,         \* time.Now(), in seconds
    drains,      \* calls of Drain so far
    drainRes,    \* what the last Drain call returned
    \* ---- ContextManager.Truncate on its own ----
    conv,        \* the conversation handed to Truncate
    truncCalls,  \* calls of Truncate so far
    \* ---- llm.WithRetry and retryingClient.Chat ----
    rMax,        \* cfg.MaxRetries handed to WithRetry
    rpc,         \* position of the Chat call: idle, inner, top, sleeping, done
    rAttempt,    \* attempt, the loop variable of retryingClient.Chat
    rOutcomes,   \* what the inner client's Chat returned, call by call
    rSleeps,     \* backoff timers started
    rCtx,        \* ctx.Err() of the caller's context
    rRes,        \* what Chat returned to the caller
    \* ---- events handed to the Publisher ----
    handed,      \* the calls of Publish / PublishReplaceable so far, with their events
    \* ---- HeartbeatPublisher ----
    hbStatus,    \* h.status
    hbIssue,     \* h.currentIssue
    hbCancelled, \* h.cancel has been called
    hbDone,      \* h.done is closed
    hpc,         \* position of the caller of Start and Stop
    hContent,    \* content.Status read by the caller's publishHeartbeat
    tpc,         \* position of the ticker goroutine
    tContent,    \* content.Status read by the goroutine's publishHeartbeat
    hbEvents,    \* lifecycle events handed to PublishReplaceable, in order
    hbSets,      \* calls of SetStatus and SetCurrentIssue so far
    \* ---- mcp.Server ----
    mToken,      \* s.authToken
    mTools,      \* s.tools: the names registered
    mRegOrder,   \* the names in the order of their first registration
    mResp,       \* the response to the last request
    mExecs,      \* tool handlers run so far
    mLists,      \* tool listings produced so far
    mStreams,    \* event streams opened so far
    mReqs,        \* requests served so far
    \* ---- Executor.runCommand and the two callers of Execute ----
    cRun,        \* the last subprocess: how it ended, its stdout and stderr
    cVia,        \* who called Execute: the agent loop or the tool server
    cIsError,    \* the result is marked as an error (the server's isError)
    cText,       \* the text of the tool result that goes back to the model
    cRuns,        \* subprocesses run so far
    \* ---- execFileEdit on the contents of files ----
    eFiles,      \* the regular files of the worktree and their contents
    eRes,        \* the last file_edit call and what it returned
    eOps,         \* content operations so far
    \* ---- one Spool used by several goroutines, step by step ----
    kFile,       \* the lines of the active spool file on disk
    kArchive,    \* the lines of the archive file
    kMu,         \* s.mu: 0 when free, else the goroutine that holds it
    gop,         \* per goroutine: the method it is in
    gpc,         \* per goroutine: its position in that method
    gloc,        \* per goroutine: the locals of the method
    gres,        \* per goroutine: what its last call returned
    kDelivered,  \* ids of the events pool.Publish accepted during drains
    kCrashed,    \* the process has died
    kCalls,       \* calls started so far
    \* ---- tools that hand their paths to a subprocess ----
    procs,       \* the subprocesses started so far: command and arguments
    pArgs,        \* the path arguments of the last such tool call, as given
    \* ---- RelayPool: configuration and reachability of the relays ----
    writeURLs,   \* p.writeURLs, the write relays of the configuration
    reachable,   \* the relays nostr.RelayConnect can reach at the moment
    reconnects   \* calls of Reconnect so far

fsVars == <<workDir, fs, written, readFrom, toolRes, fsOps>>

loopFields == <<hasSystemPrompt, state, currentTask, iteration, totalTokens, lastError, workCh,
                cancelled, doneClosed>>
driverVars == <<dpc, task, messages, iterI, calls, callJ, taskErr, idleFired>>
callerVars == <<apc, ares, acount>>
stopVars == <<spc, sres>>
obsVars == <<sent, chatCalls, execLog, callbacks, heartbeats, started, lastResp,
            lastExec>>
loopVars == <<loopFields, driverVars, callerVars, stopVars, obsVars>>

poolVars == <<writeRelays, poolClosed, accepting, received, offers, poolRes, signCalls>>
publisherVars == <<inflight, pubCalls, pubRes>>
spoolVars == <<spoolFile, archiveFile, now, drains, drainRes>>
nostrVars == <<poolVars, publisherVars, spoolVars>>

truncVars == <<conv, truncCalls>>
retryVars == <<rMax, rpc, rAttempt, rOutcomes, rSleeps, rCtx, rRes>>
evVars == <<handed>>
hbVars == <<hbStatus, hbIssue, hbCancelled, hbDone, hpc, hContent, tpc, tContent, hbEvents,
           hbSets>>
mcpVars == <<mToken, mTools, mRegOrder, mResp, mExecs, mLists, mStreams, mReqs>>
cmdVars == <<cRun, cVia, cIsError, cText, cRuns>>
editVars == <<eFiles, eRes, eOps>>
stepVars == <<kFile, kArchive, kMu, gop, gpc, gloc, gres, kDelivered, kCrashed, kCalls>>
procVars == <<procs, pArgs>>
relayVars == <<writeURLs, reachable, reconnects>>
extVars == <<truncVars, retryVars, evVars, hbVars, mcpVars, cmdVars, editVars, stepVars, procVars,
            relayVars>>

vars == <<fsVars, loopVars, nostrVars, extVars>>

(***************************************************************************)
(* State after construction                                                *)
(***************************************************************************)
Callers == 1..NumCallers
NoTask == <<>>
NoId == 0
NoUsage == 0 - 1
NoResp == [ok |-> FALSE, len |-> 0, calls |-> <<>>, usage |-> NoUsage]
NoExec == [id |-> NoId, err |-> "none"]

\* NewAgentLoop: state stopped, an empty work channel, done open; nobody has
\* called Start, AssignWork or Stop yet.
LoopAtRest ==
    /\ hasSystemPrompt \in BOOLEAN
    /\ state = "stopped"
    /\ currentTask = NoTask
    /\ iteration = 0
    /\ totalTokens = 0
    /\ lastError = "none"
    /\ workCh = <<>>
    /\ cancelled = FALSE
    /\ doneClosed = FALSE
    /\ dpc = "new"
    /\ task = NoTask
    /\ messages = <<>>
    /\ iterI = 0
    /\ calls = <<>>
    /\ callJ = 0
    /\ taskErr = "none"
    /\ idleFired = FALSE
    /\ apc = [c \in Callers |-> "idle"]
    /\ ares = [c \in Callers |-> "none"]
    /\ acount = [c \in Callers |-> 0]
    /\ spc = "idle"
    /\ sres = "none"
    /\ sent = <<>>
    /\ chatCalls = 0
    /\ execLog = <<>>
    /\ callbacks = <<>>
    /\ heartbeats = 0
    /\ started = <<>>
    /\ lastResp = NoResp
    /\ lastExec = NoExec

\* NewExecutor on an untouched checkout
FsAtRest ==
    /\ workDir = <<"w">>
    /\ fs = <<>>
    /\ written = {}
    /\ readFrom = {}
    /\ toolRes = [tool |-> "none", path |-> <<>>, err |-> "none"]
    /\ fsOps = 0

\* the relays named by cfg.WriteRelays, in the order of the configuration
Relays == 1..NumRelays
NoRelay == 0 - 1
NoTime == 0 - 1
NoEventId == 0 - 1

\* results of RelayPool.Publish: nil, or the error it returns; `last` is the
\* relay whose error is wrapped
PoolOk == [err |-> "none", last |-> NoRelay]
PoolErr(kind, r) == [err |-> kind, last |-> r]

\* an event before it is signed, and after: Sign computes the id
NoEvent == [id |-> NoEventId, kind |-> NoEventId, dtags |-> 0, big |-> FALSE]
NoCall == [ev |-> NoEvent, method |-> "none", err |-> PoolOk]
NoPubRes == [ev |-> NoEvent, method |-> "none", res |-> "none"]
NoDrainRes == [sent |-> 0 - 1, failed |-> 0 - 1]

\* NewPublisher: an open pool, an idle signer, NewSpool on an empty runtime
\* directory
NostrAtRest ==
    /\ writeRelays = <<>>
    /\ poolClosed = FALSE
    /\ accepting = {}
    /\ received = [r \in Relays |-> <<>>]
    /\ offers = <<>>
    /\ poolRes = PoolOk
    /\ signCalls = 0
    /\ inflight = NoCall
    /\ pubCalls = 0
    /\ pubRes = NoPubRes
    /\ spoolFile = <<>>
    /\ archiveFile = <<>>
    /\ now = 0
    /\ drains = 0
    /\ drainRes = NoDrainRes

\* no conversation has been handed to Truncate yet
TruncAtRest ==
    /\ conv = <<>>
    /\ truncCalls = 0

\* results of a chat call: a response, or an error with the context error it
\* wraps (errors.Is) and its message, a sequence of words and characters
ChatOk == [ok |-> TRUE, ctx |-> "none", msg |-> <<>>]
ChatErr(ctx, msg) == [ok |-> FALSE, ctx |-> ctx, msg |-> msg]
NoChatRes == ChatErr("none", <<>>)

\* no Chat call has been made on the client yet
RetryAtRest ==
    /\ rMax = 0
    /\ rpc = "idle"
    /\ rAttempt = 0
    /\ rOutcomes = <<>>
    /\ rSleeps = 0
    /\ rCtx = "none"
    /\ rRes = NoChatRes

\* NewHeartbeatPublisher: status ready, done open, nothing published
HeartbeatAtRest ==
    /\ hbStatus = "ready"
    /\ hbIssue = ""
    /\ hbCancelled = FALSE
    /\ hbDone = FALSE
    /\ hpc = "new"
    /\ hContent = "none"
    /\ tpc = "off"
    /\ tContent = "none"
    /\ hbEvents = <<>>
    /\ hbSets = 0

NoResponse ==
    [endpoint |-> "none", method |-> "none", auth |-> <<>>, reqBody |-> "none",
     outcome |-> "none", status |-> 0, isError |-> FALSE, body |-> <<>>]

\* NewServer with no token: no tool registered, no request served
McpAtRest ==
    /\ mToken = ""
    /\ mTools = {}
    /\ mRegOrder = <<>>
    /\ mResp = NoResponse
    /\ mExecs = 0
    /\ mLists = 0
    /\ mStreams = 0
    /\ mReqs = 0

NoRun == [tool |-> "none", how |-> "none", stdout |-> <<>>, stderr |-> <<>>]

\* no subprocess has been run
CmdAtRest ==
    /\ cRun = NoRun
    /\ cVia = "none"
    /\ cIsError = FALSE
    /\ cText = <<>>
    /\ cRuns = 0

NoEdit == [n |-> 0, path |-> "", search |-> <<>>, replace |-> <<>>, err |-> "none"]

\* a worktree with two files, no edit made yet
EditAtRest ==
    /\ eFiles = [p \in {"f", "g"} |-> IF p = "f" THEN <<"a", "b", "a", "b">> ELSE <<"b", "a">>]
    /\ eRes = NoEdit
    /\ eOps = 0

Goroutines == {1, 2}
NoLocals == [entries |-> <<>>, remaining |-> <<>>, old |-> <<>>, target |-> <<>>, idx |-> 0,
             id |-> 0]
NoSpoolRes == [op |-> "none", err |-> "none", id |-> 0, n |-> 0]

\* NewSpool: the mutex free, no call made; the file holds one entry that an
\* earlier run spooled
SpoolStepsAtRest ==
    /\ kFile = <<[id |-> 1, attempts |-> 0, old |-> TRUE]>>
    /\ kArchive = <<>>
    /\ kMu = 0
    /\ gop = [g \in Goroutines |-> "none"]
    /\ gpc = [g \in Goroutines |-> "idle"]
    /\ gloc = [g \in Goroutines |-> NoLocals]
    /\ gres = [g \in Goroutines |-> NoSpoolRes]
    /\ kDelivered = {}
    /\ kCrashed = FALSE
    /\ kCalls = 0

\* no subprocess started by a path-taking tool
ProcsAtRest ==
    /\ procs = <<>>
    /\ pArgs = <<>>

\* a pool whose configuration names every relay, all of them reachable
RelaysAtRest ==
    /\ writeURLs = [k \in 1..NumRelays |-> k]
    /\ reachable = Relays
    /\ reconnects = 0

ExtAtRest ==
    /\ TruncAtRest /\ RetryAtRest /\ handed = <<>> /\ HeartbeatAtRest /\ McpAtRest
    /\ CmdAtRest /\ EditAtRest /\ SpoolStepsAtRest /\ ProcsAtRest /\ RelaysAtRest

(***************************************************************************)
(* Paths.  An absolute path is the sequence of its components; <<>> is "/". *)
(***************************************************************************)
Root == <<>>
DirOf(p) == IF p = <<>> THEN <<>> ELSE SubSeq(p, 1, Len(p) - 1)
BaseOf(p) == p[Len(p)]

\* filepath.Clean on an absolute path: ".." removes the preceding component,
\* and is dropped at the root.
RECURSIVE CleanAbs(_, _)
CleanAbs(comps, acc) ==
    IF comps = <<>> THEN acc
    ELSE IF Head(comps) = ".."
         THEN CleanAbs(Tail(comps), DirOf(acc))
         ELSE CleanAbs(Tail(comps), Append(acc, Head(comps)))

IsPrefix(a, b) == Len(a) <= Len(b) /\ SubSeq(b, 1, Len(a)) = a

RECURSIVE CommonLen(_, _)
CommonLen(a, b) ==
    IF a = <<>> \/ b = <<>> \/ Head(a) # Head(b) THEN 0
    ELSE 1 + CommonLen(Tail(a), Tail(b))

\* filepath.Rel(base, targ) for two absolute clean paths: one ".." for every
\* component of base below the common prefix, then the rest of targ.
Rel(base, targ) ==
    LET c == CommonLen(base, targ)
    IN  [i \in 1..(Len(base) - c) |-> ".."] \o SubSeq(targ, c + 1, Len(targ))

\* strings.HasPrefix(rel, ".."): a textual prefix test on the first component
DotDotNames == {".."}
HasDotDotPrefix(rel) == rel # <<>> /\ rel[1] \in DotDotNames

(***************************************************************************)
(* File system                                                             *)
(***************************************************************************)
KindOf(f, p) == IF p = Root THEN "dir"
                ELSE IF p \in DOMAIN f THEN f[p].kind ELSE "none"

Entry(k, t) == [kind |-> k, target |-> t]

PutEntry(f, p, e) == [q \in (DOMAIN f) \cup {p} |-> IF q = p THEN e ELSE f[q]]

\* filepath.EvalSymlinks: walk the components, follow every link, fail on a
\* missing component, on a file used as a directory and on a link loop.
RECURSIVE Walk(_, _, _, _)
Walk(f, cur, rest, fuel) ==
    IF rest = <<>> THEN [ok |-> TRUE, path |-> cur]
    ELSE LET nxt == Append(cur, Head(rest))
             k   == KindOf(f, nxt)
         IN  IF k = "none" THEN [ok |-> FALSE, path |-> nxt]
             ELSE IF k = "dir" THEN Walk(f, nxt, Tail(rest), fuel)
             ELSE IF k = "file"
                  THEN IF Tail(rest) = <<>> THEN [ok |-> TRUE, path |-> nxt]
                       ELSE [ok |-> FALSE, path |-> nxt]
             ELSE IF fuel = 0 THEN [ok |-> FALSE, path |-> nxt]
                  ELSE Walk(f, Root, f[nxt].target \o Tail(rest), fuel - 1)

EvalSymlinks(f, p) == Walk(f, Root, p, MaxLinkHops)

\* The location an open(2) of p with O_CREATE reaches: every link on the way,
\* the last component included, is followed; the last component may be absent
\* when its directory exists.
RECURSIVE OpenTarget(_, _, _)
OpenTarget(f, p, fuel) ==
    IF p = Root THEN [ok |-> FALSE, path |-> p]
    ELSE LET d == EvalSymlinks(f, DirOf(p))
         IN  IF ~d.ok \/ KindOf(f, d.path) # "dir" THEN [ok |-> FALSE, path |-> p]
             ELSE LET nxt == Append(d.path, BaseOf(p))
                      k   == KindOf(f, nxt)
                  IN  IF k \in {"none", "file"} THEN [ok |-> TRUE, path |-> nxt]
                      ELSE IF k = "dir" THEN [ok |-> FALSE, path |-> nxt]
                      ELSE IF fuel = 0 THEN [ok |-> FALSE, path |-> nxt]
                           ELSE OpenTarget(f, f[nxt].target, fuel - 1)

\* os.MkdirAll(dir): existing components are followed (links included), the
\* missing ones are created; directories created before a failure remain.
RECURSIVE MkdirWalk(_, _, _, _)
MkdirWalk(f, cur, rest, made) ==
    IF rest = <<>> THEN [ok |-> TRUE, fs |-> f, made |-> made]
    ELSE LET nxt == Append(cur, Head(rest))
             k   == KindOf(f, nxt)
         IN  IF k = "none"
             THEN MkdirWalk(PutEntry(f, nxt, Entry("dir", <<>>)), nxt, Tail(rest),
                            made \cup {nxt})
             ELSE IF k = "dir" THEN MkdirWalk(f, nxt, Tail(rest), made)
             ELSE IF k = "file" THEN [ok |-> FALSE, fs |-> f, made |-> made]
             ELSE LET t == EvalSymlinks(f, f[nxt].target)
                  IN  IF t.ok /\ KindOf(f, t.path) = "dir"
                      THEN MkdirWalk(f, t.path, Tail(rest), made)
                      ELSE [ok |-> FALSE, fs |-> f, made |-> made]

MkdirAll(f, dir) == MkdirWalk(f, Root, dir, {})

(***************************************************************************)
(* Executor.safePath                                                       *)
(***************************************************************************)
\* a path argument: abs tells whether it starts with "/"
AbsPathOf(wd, arg) ==
    IF arg.abs THEN CleanAbs(arg.comps, <<>>)
    ELSE CleanAbs(wd \o arg.comps, <<>>)

ResolvedOf(f, absPath) ==
    LET r == EvalSymlinks(f, absPath)
    IN  IF r.ok THEN r.path
        ELSE LET parentDir == DirOf(absPath)
                 rp        == EvalSymlinks(f, parentDir)
             IN  IF ~rp.ok THEN absPath
                 ELSE IF absPath = Root THEN rp.path
                 ELSE Append(rp.path, BaseOf(absPath))

ResolvedWorkDir(f, wd) ==
    LET r == EvalSymlinks(f, wd) IN IF r.ok THEN r.path ELSE wd

safePath(f, wd, arg) ==
    LET absPath  == AbsPathOf(wd, arg)
        resolved == ResolvedOf(f, absPath)
        rel      == Rel(ResolvedWorkDir(f, wd), resolved)
    IN  IF HasDotDotPrefix(rel)
        THEN [ok |-> FALSE, path |-> absPath]
        ELSE [ok |-> TRUE, path |-> absPath]

(***************************************************************************)
(* The file tools of the executor, acting on the file system               *)
(***************************************************************************)
ArgNames == {"..", "l", "d", "n"}
AbsRoots == {"w", "o"}
RECURSIVE SeqsUpTo(_, _)
SeqsUpTo(S, n) ==
    IF n = 0 THEN {<<>>}
    ELSE LET shorter == SeqsUpTo(S, n - 1)
         IN  shorter \cup {Append(s, x) : s \in {t \in shorter : Len(t) = n - 1}, x \in S}

\* relative arguments, and absolute ones that start at /w or /o
PathArgs ==
    {[abs |-> FALSE, comps |-> c] : c \in SeqsUpTo(ArgNames, MaxPathLen) \ {<<>>}}
    \cup {[abs |-> TRUE, comps |-> <<r>> \o c] :
              r \in AbsRoots, c \in SeqsUpTo(ArgNames, MaxPathLen - 1)}

\* what is kept of a call: the tool, the cleaned absolute path, the error
Res(tool, arg, err) ==
    [tool |-> tool, path |-> AbsPathOf(workDir, arg), err |-> err]

\* execFileWrite
execFileWrite(arg) ==
    /\ fsOps < MaxFsOps
    /\ fsOps' = fsOps + 1
    /\ LET sp == safePath(fs, workDir, arg)
       IN  IF ~sp.ok
           THEN /\ toolRes' = Res("file_write", arg, "outside")
                /\ UNCHANGED <<fs, written, readFrom>>
           ELSE LET md == MkdirAll(fs, DirOf(sp.path))
                IN  IF ~md.ok
                    THEN /\ toolRes' = Res("file_write", arg, "mkdir")
                         /\ fs' = md.fs
                         /\ written' = written \cup md.made
                         /\ UNCHANGED readFrom
                    ELSE LET ot == OpenTarget(md.fs, sp.path, MaxLinkHops)
                         IN  IF ~ot.ok
                             THEN /\ toolRes' = Res("file_write", arg, "write")
                                  /\ fs' = md.fs
                                  /\ written' = written \cup md.made
                                  /\ UNCHANGED readFrom
                             ELSE /\ toolRes' = Res("file_write", arg, "none")
                                  /\ fs' = PutEntry(md.fs, ot.path, Entry("file", <<>>))
                                  /\ written' = written \cup md.made \cup {ot.path}
                                  /\ UNCHANGED readFrom
    /\ UNCHANGED <<workDir, loopVars, nostrVars, extVars>>

\* execFileRead: os.Stat and os.ReadFile follow links to the real file
execFileRead(arg) ==
    /\ fsOps < MaxFsOps
    /\ fsOps' = fsOps + 1
    /\ LET sp == safePath(fs, workDir, arg)
       IN  IF ~sp.ok
           THEN /\ toolRes' = Res("file_read", arg, "outside")
                /\ UNCHANGED readFrom
           ELSE LET r == EvalSymlinks(fs, sp.path)
                IN  IF ~r.ok
                    THEN /\ toolRes' = Res("file_read", arg, "notfound")
                         /\ UNCHANGED readFrom
                    ELSE IF KindOf(fs, r.path) # "file"
                    THEN /\ toolRes' = Res("file_read", arg, "read")
                         /\ UNCHANGED readFrom
                    ELSE /\ toolRes' = Res("file_read", arg, "none")
                         /\ readFrom' = readFrom \cup {r.path}
    /\ UNCHANGED <<workDir, fs, written, loopVars, nostrVars, extVars>>

\* execFileEdit: read the file, then write it back in place
execFileEdit(arg, found) ==
    /\ fsOps < MaxFsOps
    /\ fsOps' = fsOps + 1
    /\ LET sp == safePath(fs, workDir, arg)
       IN  IF ~sp.ok
           THEN /\ toolRes' = Res("file_edit", arg, "outside")
                /\ UNCHANGED <<readFrom, written>>
           ELSE LET r == EvalSymlinks(fs, sp.path)
                IN  IF ~r.ok \/ KindOf(fs, r.path) # "file"
                    THEN /\ toolRes' = Res("file_edit", arg, "read")
                         /\ UNCHANGED <<readFrom, written>>
                    ELSE IF ~found
                    THEN /\ toolRes' = Res("file_edit", arg, "searchmiss")
                         /\ readFrom' = readFrom \cup {r.path}
                         /\ UNCHANGED written
                    ELSE /\ toolRes' = Res("file_edit", arg, "none")
                         /\ readFrom' = readFrom \cup {r.path}
                         /\ written' = written \cup {r.path}
    /\ UNCHANGED <<workDir, fs, loopVars, nostrVars, extVars>>

\* execFileList (non-recursive): os.ReadDir of the directory the path names
execFileList(arg) ==
    /\ fsOps < MaxFsOps
    /\ fsOps' = fsOps + 1
    /\ LET sp == safePath(fs, workDir, arg)
       IN  IF ~sp.ok
           THEN /\ toolRes' = Res("file_list", arg, "outside")
                /\ UNCHANGED readFrom
           ELSE LET r == EvalSymlinks(fs, sp.path)
                IN  IF ~r.ok \/ KindOf(fs, r.path) # "dir"
                    THEN /\ toolRes' = Res("file_list", arg, "readdir")
                         /\ UNCHANGED readFrom
                    ELSE /\ toolRes' = Res("file_list", arg, "none")
                         /\ readFrom' = readFrom \cup {r.path}
    /\ UNCHANGED <<workDir, fs, written, loopVars, nostrVars, extVars>>

\* The worktree /w of a checkout, a directory /o outside it, and optionally a
\* symbolic link /w/l; the executor may be given the worktree through the
\* link /lw.
LinkTargets == {<<"o">>, <<"o", "x">>, <<"w", "d">>}
BaseFs ==
    LET P == {<<"w">>, <<"o">>, <<"lw">>, <<"w", "d">>, <<"w", "f">>, <<"o", "s">>}
    IN  [p \in P |->
            IF p = <<"lw">> THEN Entry("link", <<"w">>)
            ELSE IF p \in {<<"w", "f">>, <<"o", "s">>} THEN Entry("file", <<>>)
            ELSE Entry("dir", <<>>)]

InitFs ==
    /\ workDir \in {<<"w">>, <<"lw">>}
    /\ \/ fs = BaseFs
       \/ \E t \in LinkTargets : fs = PutEntry(BaseFs, <<"w", "l">>, Entry("link", t))
    /\ written = {}
    /\ readFrom = {}
    /\ toolRes = [tool |-> "none", path |-> <<>>, err |-> "none"]
    /\ fsOps = 0
    /\ LoopAtRest
    /\ NostrAtRest
    /\ ExtAtRest

NextFs ==
    \/ \E arg \in PathArgs : execFileWrite(arg)
    \/ \E arg \in PathArgs : execFileRead(arg)
    \/ \E arg \in PathArgs, found \in BOOLEAN : execFileEdit(arg, found)
    \/ \E arg \in PathArgs : execFileList(arg)

SpecFs == InitFs /\ [][NextFs]_vars

(***************************************************************************)
(* Conversations.  A turn keeps the length of its content, not its text.   *)
(***************************************************************************)
Msg(role, len, cs, tcid, name, isErr) ==
    [role |-> role, len |-> len, calls |-> cs, tcid |-> tcid, name |-> name,
     isErr |-> isErr]

\* lengths of the strings the model works with
SystemPromptLen == 20
TaskLen == 10
ArgsLen == 20
ToolNames == {"shell_exec", "nosuch"}
NameLen(n) == IF n = "shell_exec" THEN 10 ELSE 6
\* len("Error executing " + name + ": " + err.Error())
ErrLen(n, kind) ==
    18 + NameLen(n)
    + (IF kind = "unknown" THEN 14 + NameLen(n)
       ELSE IF kind = "args" THEN 43 + NameLen(n)
       ELSE IF kind = "timeout" THEN 28
       ELSE 29)
\* lengths of the output of a successful command
OutLens == {9, 2500}

(***************************************************************************)
(* ContextManager                                                          *)
(***************************************************************************)
\* EstimateTokens: int(float64(len(s)) * 0.28)
EstimateTokens(n) == (n * 28) \div 100

RECURSIVE CallTokens(_)
CallTokens(cs) ==
    IF cs = <<>> THEN 0
    ELSE EstimateTokens(NameLen(Head(cs).name)) + EstimateTokens(Head(cs).args) + 10
         + CallTokens(Tail(cs))

EstimateMessageTokens(m) ==
    EstimateTokens(m.len) + 4 + CallTokens(m.calls)
    + (IF m.tcid # NoId THEN 10 ELSE 0)

RECURSIVE EstimateConversationTokens(_)
EstimateConversationTokens(ms) ==
    IF ms = <<>> THEN 0
    ELSE EstimateMessageTokens(Head(ms)) + EstimateConversationTokens(Tail(ms))

\* NewContextManager: int(float64(contextWindow) * (1 - 0.15))
DefaultContextWindow == 128000
CmMaxTokens ==
    ((IF ContextWindow <= 0 THEN DefaultContextWindow ELSE ContextWindow) * 85) \div 100

NeedsTruncation(ms) == EstimateConversationTokens(ms) > CmMaxTokens

MaxToolResult == 2000
TruncMarkerLen == 35
\* variant of trimToolResults: the content is cut and no marker is added
trimToolResultsNoMarker(ms) ==
    [k \in 1..Len(ms) |->
        IF ms[k].role = "tool" /\ ms[k].len > MaxToolResult
        THEN [ms[k] EXCEPT !.len = MaxToolResult]
        ELSE ms[k]]

\* len("\n... (truncated for context window)") = TruncMarkerLen
trimToolResults(ms) ==
    [k \in 1..Len(ms) |->
        IF ms[k].role = "tool" /\ ms[k].len > MaxToolResult
        THEN [ms[k] EXCEPT !.len = MaxToolResult + TruncMarkerLen]
        ELSE ms[k]]

\* number of decimal digits of n, as %d prints it
RECURSIVE Digits(_)
Digits(n) == IF n < 10 THEN 1 ELSE 1 + Digits(n \div 10)

CountRole(ms, r) == Cardinality({k \in 1..Len(ms) : ms[k].role = r})

RECURSIVE CountCalls(_)
CountCalls(ms) ==
    IF ms = <<>> THEN 0
    ELSE (IF Head(ms).role = "assistant" THEN Len(Head(ms).calls) ELSE 0)
         + CountCalls(Tail(ms))

RECURSIVE CountName(_, _)
CountName(ms, n) ==
    IF ms = <<>> THEN 0
    ELSE Cardinality({k \in 1..Len(Head(ms).calls) : Head(ms).calls[k].name = n})
         + CountName(Tail(ms), n)

RECURSIVE SumOver(_, _, _)
SumOver(S, ms, first) ==
    IF S = {} THEN 0
    ELSE LET n == CHOOSE x \in S : TRUE
         IN  (IF first THEN 0 ELSE 2) + NameLen(n) + 2 + Digits(CountName(ms, n))
             + SumOver(S \ {n}, ms, FALSE)

\* length of the text summarizeMessages builds
summarizeMessages(ms) ==
    LET userMsgs      == CountRole(ms, "user")
        assistantMsgs == CountRole(ms, "assistant")
        toolCalls     == CountCalls(ms)
        used          == {n \in ToolNames : CountName(ms, n) > 0}
    IN  (IF userMsgs > 0 THEN 17 + Digits(userMsgs) ELSE 0)
        + (IF assistantMsgs > 0 THEN 23 + Digits(assistantMsgs) ELSE 0)
        + (IF toolCalls > 0
           THEN 15 + Digits(toolCalls) + SumOver(used, ms, TRUE) + 1
           ELSE 0)

MinKeepEnd == 6

Truncate(ms) ==
    IF ~NeedsTruncation(ms) THEN ms
    ELSE IF Len(ms) <= MinKeepEnd + 1 THEN trimToolResults(ms)
    ELSE LET hasSys   == ms[1].role = "system"
             startIdx == IF hasSys THEN 1 ELSE 0
             kf       == Len(ms) - MinKeepEnd
             keepFrom == IF kf < startIdx THEN startIdx ELSE kf
             dropped  == SubSeq(ms, startIdx + 1, keepFrom)
             summary  == 31 + Digits(keepFrom - startIdx) + summarizeMessages(dropped)
             result   ==
                 (IF hasSys THEN <<ms[1]>> ELSE <<>>)
                 \o (IF keepFrom > startIdx
                     THEN <<Msg("user", summary, <<>>, NoId, "", FALSE)>>
                     ELSE <<>>)
                 \o SubSeq(ms, keepFrom + 1, Len(ms))
         IN  IF NeedsTruncation(result) THEN trimToolResults(result) ELSE result

(***************************************************************************)
(* The stub model client and the executor as the loop sees them            *)
(***************************************************************************)
Usages == {NoUsage, 1, 3}
RespLen == 12

ToolCall(id, name) == [id |-> id, name |-> name, args |-> ArgsLen]

\* tool calls of the response to the it-th chat call: ids are unique, the
\* names alternate starting from either tool
OtherName(n) == IF n = "shell_exec" THEN "nosuch" ELSE "shell_exec"
CallLists(it, maxCalls) ==
    {<<>>} \cup
    {[k \in 1..n |-> ToolCall(it * 10 + k, IF k % 2 = 1 THEN first ELSE OtherName(first))] :
        n \in 1..maxCalls, first \in ToolNames}

Responses(it, maxCalls) ==
    {[ok |-> TRUE, len |-> RespLen, calls |-> cs, usage |-> u] :
        cs \in CallLists(it, maxCalls), u \in Usages}

\* Executor.Execute: what it returns for a call, by tool.  err "none" is
\* success with an output of the given length.
ExecOutcomes(name) ==
    IF name = "shell_exec"
    THEN {[err |-> "none", len |-> n] : n \in OutLens}
         \cup {[err |-> k, len |-> 0] : k \in {"exit", "timeout"}}
    ELSE {[err |-> "unknown", len |-> 0]}

\* variants of ToolTurn: the tool_call_id is left out; the error of a failed
\* call is dropped and the empty result of Execute is kept
ToolTurnNoId(tc, o) ==
    IF o.err # "none"
    THEN Msg("tool", ErrLen(tc.name, o.err), <<>>, NoId, tc.name, TRUE)
    ELSE Msg("tool", o.len, <<>>, NoId, tc.name, FALSE)

ToolTurnPlainError(tc, o) == Msg("tool", o.len, <<>>, tc.id, tc.name, FALSE)

\* the tool turn runTask appends for a call and its outcome
ToolTurn(tc, o) ==
    IF o.err # "none"
    THEN Msg("tool", ErrLen(tc.name, o.err), <<>>, tc.id, tc.name, TRUE)
    ELSE Msg("tool", o.len, <<>>, tc.id, tc.name, FALSE)

AssistantTurn(r) == Msg("assistant", r.len, r.calls, NoId, "", FALSE)

\* variant of CallAt: the calls are walked from the last to the first
CallAtReversed(cs, k) == cs[Len(cs) + 1 - k]

\* the order in which runTask walks resp.ToolCalls
CallAt(cs, k) == cs[k]

SeedConversation(t) ==
    (IF hasSystemPrompt THEN <<Msg("system", SystemPromptLen, <<>>, NoId, "", FALSE)>>
     ELSE <<>>)
    \o <<Msg("user", TaskLen, <<>>, NoId, "", FALSE)>>

(***************************************************************************)
(* AgentLoop.Start: the driver                                             *)
(***************************************************************************)
WorkChCap == 1

Start ==
    /\ dpc = "new"
    /\ state' = "idle"
    /\ dpc' = "select"
    /\ UNCHANGED <<hasSystemPrompt, currentTask, iteration, totalTokens, lastError,
                   workCh, cancelled, doneClosed>>
    /\ UNCHANGED <<task, messages, iterI, calls, callJ, taskErr, idleFired>>
    /\ UNCHANGED <<callerVars, stopVars, obsVars, fsVars, nostrVars, extVars>>

\* case <-idleTimer.C: log and reset
IdleTick ==
    /\ dpc = "select"
    /\ ~idleFired
    /\ idleFired' = TRUE
    /\ UNCHANGED <<dpc, task, messages, iterI, calls, callJ, taskErr>>
    /\ UNCHANGED <<loopFields, callerVars, stopVars, obsVars, fsVars, nostrVars, extVars>>

\* case task := <-l.workCh
RecvWork ==
    /\ dpc = "select"
    /\ workCh # <<>>
    /\ task' = Head(workCh)
    /\ workCh' = Tail(workCh)
    /\ idleFired' = FALSE
    /\ dpc' = "begin"
    /\ UNCHANGED <<hasSystemPrompt, state, currentTask, iteration, totalTokens,
                   lastError, cancelled, doneClosed>>
    /\ UNCHANGED <<messages, iterI, calls, callJ, taskErr>>
    /\ UNCHANGED <<callerVars, stopVars, obsVars, fsVars, nostrVars, extVars>>

\* the locked section before runTask, and the seeding of the conversation
BeginTask ==
    /\ dpc = "begin"
    /\ state' = "working"
    /\ currentTask' = task
    /\ iteration' = 0
    /\ totalTokens' = 0
    /\ messages' = SeedConversation(task)
    /\ iterI' = 0
    /\ calls' = <<>>
    /\ callJ' = 0
    /\ taskErr' = "none"
    /\ sent' = <<>>
    /\ chatCalls' = 0
    /\ execLog' = <<>>
    /\ started' = Append(started, task)
    /\ lastResp' = NoResp
    /\ lastExec' = NoExec
    /\ dpc' = "iter"
    /\ UNCHANGED <<hasSystemPrompt, lastError, workCh, cancelled, doneClosed>>
    /\ UNCHANGED <<task, idleFired, callbacks, heartbeats>>
    /\ UNCHANGED <<callerVars, stopVars, fsVars, nostrVars, extVars>>

\* ctx.Err() of a cancelled context
CtxErr == "cancel"

\* fmt.Errorf("LLM call failed at iteration %d: %w", i+1, err): a new error
\* that wraps err
LLMCallFailed(err) == IF err = CtxErr THEN "llmcancel" ELSE "llm"

\* errors.Unwrap
Unwrap(err) ==
    IF err = "llmcancel" THEN CtxErr
    ELSE IF err = "llm" THEN "provider"
    ELSE "none"

\* variant of LoopContinues: i <= MaxIterations
LoopContinuesInclusive(it, maxIter) == it <= maxIter

\* the condition of runTask's for loop
LoopContinues(it, maxIter) == it < maxIter

\* head of runTask's for loop up to the call of client.Chat
IterTop(maxIter) ==
    /\ dpc = "iter"
    /\ IF ~LoopContinues(iterI, maxIter)
       THEN /\ taskErr' = "maxiter"
            /\ dpc' = "ret"
            /\ UNCHANGED <<iteration, messages, sent, chatCalls>>
       ELSE IF cancelled
       THEN /\ taskErr' = CtxErr
            /\ dpc' = "ret"
            /\ UNCHANGED <<iteration, messages, sent, chatCalls>>
       ELSE /\ iteration' = iterI + 1
            /\ messages' = IF NeedsTruncation(messages) THEN Truncate(messages)
                           ELSE messages
            /\ sent' = messages'
            /\ chatCalls' = chatCalls + 1
            /\ dpc' = "chat"
            /\ UNCHANGED taskErr
    /\ UNCHANGED <<hasSystemPrompt, state, currentTask, totalTokens, lastError,
                   workCh, cancelled, doneClosed>>
    /\ UNCHANGED <<task, iterI, calls, callJ, idleFired>>
    /\ UNCHANGED <<execLog, callbacks, heartbeats, started, lastResp, lastExec>>
    /\ UNCHANGED <<callerVars, stopVars, fsVars, nostrVars, extVars>>

\* variant of OverBudget: the budget itself already ends the task
OverBudgetInclusive(total) == total >= MaxTokensPerTask

\* the budget test of runTask
OverBudget(total) == total > MaxTokensPerTask

\* variant of AfterResponse: a response without tool calls ends the task
\* before its turn is added
AfterResponseSkipFinal(ms, r) ==
    IF r.calls = <<>> THEN ms ELSE Append(ms, AssistantTurn(r))

\* the conversation once the assistant response is added to the history
AfterResponse(ms, r) == Append(ms, AssistantTurn(r))

\* client.Chat returns: an error, or a response
ChatReturn(maxCalls) ==
    /\ dpc = "chat"
    /\ \/ /\ taskErr' = LLMCallFailed("provider")
          /\ dpc' = "ret"
          /\ lastResp' = NoResp
          /\ UNCHANGED <<totalTokens, messages, calls, callJ, execLog>>
       \/ /\ cancelled
          /\ taskErr' = LLMCallFailed(CtxErr)
          /\ dpc' = "ret"
          /\ lastResp' = NoResp
          /\ UNCHANGED <<totalTokens, messages, calls, callJ, execLog>>
       \/ \E r \in Responses(iterI + 1, maxCalls) :
            LET total == IF r.usage = NoUsage THEN totalTokens
                         ELSE totalTokens + r.usage
            IN  /\ totalTokens' = total
                /\ lastResp' = r
                /\ IF r.usage # NoUsage /\ OverBudget(total)
                   THEN /\ taskErr' = "budget"
                        /\ dpc' = "ret"
                        /\ UNCHANGED <<messages, calls, callJ, execLog>>
                   ELSE /\ messages' = AfterResponse(messages, r)
                        /\ calls' = r.calls
                        /\ execLog' = <<>>
                        /\ IF r.calls = <<>>
                           THEN /\ taskErr' = "none"
                                /\ dpc' = "ret"
                                /\ UNCHANGED callJ
                           ELSE /\ callJ' = 1
                                /\ dpc' = "tool"
                                /\ UNCHANGED taskErr
    /\ UNCHANGED <<hasSystemPrompt, state, currentTask, iteration, lastError,
                   workCh, cancelled, doneClosed>>
    /\ UNCHANGED <<task, iterI, idleFired>>
    /\ UNCHANGED <<sent, chatCalls, callbacks, heartbeats, started, lastExec>>
    /\ UNCHANGED <<callerVars, stopVars, fsVars, nostrVars, extVars>>

\* l.executor.Execute is entered for the next tool call
ToolStart ==
    /\ dpc = "tool"
    /\ execLog' = Append(execLog, CallAt(calls, callJ).id)
    /\ dpc' = "exec"
    /\ lastResp' = NoResp
    /\ UNCHANGED <<task, messages, iterI, calls, callJ, taskErr, idleFired>>
    /\ UNCHANGED <<sent, chatCalls, callbacks, heartbeats, started, lastExec>>
    /\ UNCHANGED <<loopFields, callerVars, stopVars, fsVars, nostrVars, extVars>>

\* Execute returns; the tool turn is appended; after the last call the
\* heartbeat callback may run and the next iteration begins
ToolFinish ==
    /\ dpc = "exec"
    /\ \E o \in ExecOutcomes(CallAt(calls, callJ).name) :
          /\ messages' = Append(messages, ToolTurn(CallAt(calls, callJ), o))
          /\ lastExec' = [id |-> CallAt(calls, callJ).id, err |-> o.err]
    /\ IF callJ < Len(calls)
       THEN /\ callJ' = callJ + 1
            /\ dpc' = "tool"
            /\ UNCHANGED <<iterI, heartbeats>>
       ELSE /\ heartbeats' = IF (iterI + 1) % 5 = 0 THEN heartbeats + 1 ELSE heartbeats
            /\ iterI' = iterI + 1
            /\ dpc' = "iter"
            /\ UNCHANGED callJ
    /\ UNCHANGED <<task, calls, taskErr, idleFired>>
    /\ UNCHANGED <<sent, chatCalls, execLog, callbacks, started, lastResp>>
    /\ UNCHANGED <<loopFields, callerVars, stopVars, fsVars, nostrVars, extVars>>

\* variant of StateAfterTask: a failed task leaves the loop in StateError
StateAfterTaskError(err) == IF err # "none" THEN "error" ELSE "idle"

\* the state the driver sets when runTask has returned err
StateAfterTask(err) == "idle"

\* the locked section after runTask
TaskReturn ==
    /\ dpc = "ret"
    /\ state' = StateAfterTask(taskErr)
    /\ currentTask' = NoTask
    /\ lastError' = IF taskErr # "none" THEN taskErr ELSE lastError
    /\ dpc' = "cb"
    /\ UNCHANGED <<hasSystemPrompt, iteration, totalTokens, workCh, cancelled, doneClosed>>
    /\ UNCHANGED <<task, messages, iterI, calls, callJ, taskErr, idleFired>>
    /\ UNCHANGED <<callerVars, stopVars, obsVars, fsVars, nostrVars, extVars>>

\* l.config.OnTaskComplete(task, l.iteration, l.totalTokens, err)
CompletionCallback ==
    /\ dpc = "cb"
    /\ callbacks' = Append(callbacks, [task |-> task, iterations |-> iteration,
                                       tokens |-> totalTokens, err |-> taskErr])
    /\ dpc' = "select"
    /\ UNCHANGED <<task, messages, iterI, calls, callJ, taskErr, idleFired>>
    /\ UNCHANGED <<sent, chatCalls, execLog, heartbeats, started, lastResp, lastExec>>
    /\ UNCHANGED <<loopFields, callerVars, stopVars, fsVars, nostrVars, extVars>>

\* case <-ctx.Done(): return, and the deferred l.state = StateStopped
ExitLoop ==
    /\ dpc = "select"
    /\ cancelled
    /\ state' = "stopped"
    /\ dpc' = "close"
    /\ UNCHANGED <<hasSystemPrompt, currentTask, iteration, totalTokens, lastError,
                   workCh, cancelled, doneClosed>>
    /\ UNCHANGED <<task, messages, iterI, calls, callJ, taskErr, idleFired>>
    /\ UNCHANGED <<callerVars, stopVars, obsVars, fsVars, nostrVars, extVars>>

\* the deferred close(l.done)
CloseDone ==
    /\ dpc = "close"
    /\ doneClosed' = TRUE
    /\ dpc' = "exited"
    /\ UNCHANGED <<hasSystemPrompt, state, currentTask, iteration, totalTokens,
                   lastError, workCh, cancelled>>
    /\ UNCHANGED <<task, messages, iterI, calls, callJ, taskErr, idleFired>>
    /\ UNCHANGED <<callerVars, stopVars, obsVars, fsVars, nostrVars, extVars>>

(***************************************************************************)
(* AgentLoop.AssignWork                                                    *)
(***************************************************************************)
\* variant of AssignCheck: the test for StateWorking is missing
AssignCheckNoBusy(st) == IF st = "stopped" THEN "Stopped" ELSE "send"

\* what AssignWork does with the state it read under the mutex
AssignCheck(st) ==
    IF st = "stopped" THEN "Stopped"
    ELSE IF st = "working" THEN "Busy"
    ELSE "send"

NewTask(c, n) == <<c, n>>

\* l.mu.Lock(); state := l.state; l.mu.Unlock(), and the two early returns
AssignRead(c) ==
    /\ apc[c] = "idle"
    /\ acount[c] < MaxAssigns
    /\ acount' = [acount EXCEPT ![c] = @ + 1]
    /\ IF AssignCheck(state) = "send"
       THEN /\ apc' = [apc EXCEPT ![c] = "send"]
            /\ ares' = [ares EXCEPT ![c] = "none"]
       ELSE /\ apc' = apc
            /\ ares' = [ares EXCEPT ![c] = AssignCheck(state)]
    /\ UNCHANGED <<loopFields, driverVars, stopVars, obsVars, fsVars, nostrVars, extVars>>

\* variant of SendReady: the channel takes one task more than its capacity
SendReadyOneMore(ch) == Len(ch) <= WorkChCap

\* the two branches of select { case l.workCh <- task: ...; default: ... }
SendReady(ch) == Len(ch) < WorkChCap
DefaultReady(ch) == ~SendReady(ch)

AssignSend(c) ==
    /\ apc[c] = "send"
    /\ \/ /\ SendReady(workCh)
          /\ workCh' = Append(workCh, NewTask(c, acount[c]))
          /\ ares' = [ares EXCEPT ![c] = "ok"]
       \/ /\ DefaultReady(workCh)
          /\ workCh' = workCh
          /\ ares' = [ares EXCEPT ![c] = "Full"]
    /\ apc' = [apc EXCEPT ![c] = "idle"]
    /\ UNCHANGED <<hasSystemPrompt, state, currentTask, iteration, totalTokens,
                   lastError, cancelled, doneClosed>>
    /\ UNCHANGED acount
    /\ UNCHANGED <<driverVars, stopVars, obsVars, fsVars, nostrVars, extVars>>

(***************************************************************************)
(* AgentLoop.Stop and the cancellation of the context given to Start       *)
(***************************************************************************)
\* the state test and l.cancelFunc()
StopCancel ==
    /\ spc = "idle"
    /\ IF state = "stopped"
       THEN /\ sres' = "ok"
            /\ spc' = "done"
            /\ UNCHANGED cancelled
       ELSE /\ cancelled' = TRUE
            /\ spc' = "wait"
            /\ UNCHANGED sres
    /\ UNCHANGED <<hasSystemPrompt, state, currentTask, iteration, totalTokens,
                   lastError, workCh, doneClosed>>
    /\ UNCHANGED <<driverVars, callerVars, obsVars, fsVars, nostrVars, extVars>>

\* variant of WaitResult: Stop reports success whether or not done is closed
WaitResultAlwaysOk(closed) == "ok"

\* select { case <-l.done: ...; case <-time.After(30 * time.Second): ... }
WaitResult(closed) == IF closed THEN "ok" ELSE "timeout"

StopWait ==
    /\ spc = "wait"
    /\ sres' = WaitResult(doneClosed)
    /\ spc' = "done"
    /\ UNCHANGED <<loopFields, driverVars, callerVars, obsVars, fsVars, nostrVars, extVars>>

\* the caller of Start cancels the context it passed
CancelCtx ==
    /\ ~cancelled
    /\ cancelled' = TRUE
    /\ UNCHANGED <<hasSystemPrompt, state, currentTask, iteration, totalTokens,
                   lastError, workCh, doneClosed>>
    /\ UNCHANGED <<driverVars, callerVars, stopVars, obsVars, fsVars, nostrVars, extVars>>

(***************************************************************************)
(* Nostr: events, the signer and the relay pool                            *)
(***************************************************************************)
KindRelayList == 10002
KindLogStatus == 30315
KindLifecycle == 30316

Event(kind, dtags, big) == [id |-> NoEventId, kind |-> kind, dtags |-> dtags, big |-> big]

\* The events handed to the publisher.  dtags is the number of tags
\* ["d", value]; big says that the JSON line of the event is longer than
\* bufio.MaxScanTokenSize (64 KiB) and fits the 1 MiB buffer readAllLocked
\* sets ("events can be big").
\*   PublishRelayLists: kind 10002, tags "r" only
\*   NewLogStatusEvent: kind 30315, BaseTags + type + visibility, any payload
\*   NewLifecycleEvent: kind 30316, BaseTags + ReplaceableTag + type
\*   a caller of the Publisher API: kind 30316 without a "d" tag
EventInputs ==
    { Event(KindRelayList, 0, FALSE),
      Event(KindLogStatus, 0, TRUE),
      Event(KindLifecycle, 1, FALSE),
      Event(KindLifecycle, 0, FALSE) }

Methods == {"Publish", "PublishReplaceable"}

\* signer.Sign computes the id of the event; the n-th call yields id n
Signed(ev, n) == [ev EXCEPT !.id = n]

\* variant of FanOut: the loop stops at the first relay that accepts
RECURSIVE FanOutUntilAccepted(_, _, _, _)
FanOutUntilAccepted(rs, id, acc, st) ==
    IF rs = <<>> \/ st.successes > 0 THEN st
    ELSE LET r == Head(rs)
         IN  FanOutUntilAccepted(Tail(rs), id, acc,
                IF r \in acc
                THEN [st EXCEPT !.successes = @ + 1,
                                !.offered = Append(@, r),
                                !.recv = [@ EXCEPT ![r] = Append(@, id)]]
                ELSE [st EXCEPT !.lastErr = r,
                                !.offered = Append(@, r)])

\* for _, relay := range p.writeRelays { relay.Publish(ctx, event) ... }
RECURSIVE FanOut(_, _, _, _)
FanOut(rs, id, acc, st) ==
    IF rs = <<>> THEN st
    ELSE LET r == Head(rs)
         IN  FanOut(Tail(rs), id, acc,
                IF r \in acc
                THEN [st EXCEPT !.successes = @ + 1,
                                !.offered = Append(@, r),
                                !.recv = [@ EXCEPT ![r] = Append(@, id)]]
                ELSE [st EXCEPT !.lastErr = r,
                                !.offered = Append(@, r)])

\* RelayPool.Publish on the pool (rs, closed) while the relays in acc accept:
\* the result, the relays offered the event, and what the relays hold after
PoolPublish(rs, closed, acc, recv, id) ==
    IF closed
    THEN [res |-> PoolErr("closed", NoRelay), offered |-> <<>>, recv |-> recv]
    ELSE IF Len(rs) = 0
    THEN [res |-> PoolErr("norelays", NoRelay), offered |-> <<>>, recv |-> recv]
    ELSE LET st == FanOut(rs, id, acc,
                     [lastErr |-> NoRelay, successes |-> 0,
                      offered |-> <<>>, recv |-> recv])
         IN  [res |-> IF st.successes = 0 THEN PoolErr("allfailed", st.lastErr)
                      ELSE PoolOk,
              offered |-> st.offered,
              recv |-> st.recv]

(***************************************************************************)
(* Nostr: the spool file                                                   *)
(***************************************************************************)
\* a line json.Marshal(SpoolEntry) wrote, and a line that is not JSON
EntryOf(ev, t) ==
    [t |-> "entry", id |-> ev.id, kind |-> ev.kind, dtags |-> ev.dtags,
     big |-> ev.big, spooledAt |-> t, attempts |-> 0, lastAttempt |-> NoTime,
     lastError |-> "none"]

MalformedLine ==
    [t |-> "malformed", id |-> NoEventId, kind |-> NoEventId, dtags |-> 0,
     big |-> FALSE, spooledAt |-> NoTime, attempts |-> 0, lastAttempt |-> NoTime,
     lastError |-> "none"]

\* the event Drain rebuilds from an entry: the id is hex-decoded again
EventOf(entry) ==
    [id |-> entry.id, kind |-> entry.kind, dtags |-> entry.dtags, big |-> entry.big]

\* countLocked: a bufio.Scanner with the default buffer counts the non-empty
\* lines; Scan returns false at a line longer than 64 KiB and the error is
\* not looked at, so the count ends there
RECURSIVE countLocked(_)
countLocked(lines) ==
    IF lines = <<>> THEN 0
    ELSE IF Head(lines).big THEN 0
    ELSE 1 + countLocked(Tail(lines))

\* readAllLocked: the lines that unmarshal, in file order (the scanner here
\* has a 1 MiB buffer)
readAllLocked(lines) == SelectSeq(lines, LAMBDA l : l.t = "entry")

\* writeAllLocked: O_TRUNC, then one line per entry
writeAllLocked(entries) == entries

\* variant of Enqueue: the entry is written twice
EnqueueTwice(lines, ev, t) ==
    IF countLocked(lines) >= HardLimit
    THEN [ok |-> FALSE, file |-> lines]
    ELSE [ok |-> TRUE, file |-> Append(Append(lines, EntryOf(ev, t)), EntryOf(ev, t))]

\* Spool.Enqueue
Enqueue(lines, ev, t) ==
    IF countLocked(lines) >= HardLimit
    THEN [ok |-> FALSE, file |-> lines]
    ELSE [ok |-> TRUE, file |-> Append(lines, EntryOf(ev, t))]

\* variant of backoffDuration: the doubling goes on after the third attempt
backoffDurationUncapped(attempts) ==
    IF attempts <= 0 THEN 0
    ELSE IF attempts = 1 THEN 30
    ELSE IF attempts = 2 THEN 60
    ELSE IF attempts = 3 THEN 120
    ELSE 240

\* backoffDuration, in seconds
backoffDuration(attempts) ==
    IF attempts <= 0 THEN 0
    ELSE IF attempts = 1 THEN 30
    ELSE IF attempts = 2 THEN 60
    ELSE IF attempts = 3 THEN 120
    ELSE 300

\* variant of BackoffGate: every entry is held back
BackoffGateShut(entry, t) == TRUE

\* the test of Drain that skips an entry
BackoffGate(entry, t) ==
    /\ entry.lastAttempt # NoTime
    /\ t - entry.lastAttempt < backoffDuration(entry.attempts)

\* variant of KeepFailed: an entry whose publish failed is dropped
DropFailed(remaining, entry, t, err) == remaining

\* what Drain keeps of an entry whose publish failed with the error err
KeepFailed(remaining, entry, t, err) ==
    Append(remaining, [entry EXCEPT !.attempts = @ + 1, !.lastAttempt = t,
                                    !.lastError = err.err])

\* the loop of Drain over the entries read
RECURSIVE DrainLoop(_, _, _, _, _, _)
DrainLoop(entries, rs, closed, acc, t, st) ==
    IF entries = <<>> THEN st
    ELSE LET entry == Head(entries)
             pp == PoolPublish(rs, closed, acc, st.recv, EventOf(entry).id)
         IN  DrainLoop(Tail(entries), rs, closed, acc, t,
                IF BackoffGate(entry, t)
                THEN [st EXCEPT !.remaining = Append(@, entry)]
                ELSE IF pp.res # PoolOk
                THEN [st EXCEPT !.remaining = KeepFailed(@, entry, t, pp.res),
                                !.failed = @ + 1,
                                !.offers = pp.offered,
                                !.poolRes = pp.res]
                ELSE [st EXCEPT !.sent = @ + 1,
                                !.recv = pp.recv,
                                !.offers = pp.offered,
                                !.poolRes = pp.res])

(***************************************************************************)
(* Nostr: Publisher, Spool.Drain, Spool.ArchiveOld and the environment     *)
(***************************************************************************)
\* variant of HasDTag: every event passes the test of PublishReplaceable
HasDTagAlways(ev) == TRUE

\* the loop of PublishReplaceable over event.Tags
HasDTag(ev) == ev.dtags >= 1

\* variant of AfterEnqueue: Publish reports an error although the event is
\* spooled
AfterEnqueueStrict(ok) == "both"

\* what Publish returns after Enqueue: nil, or the compound error
AfterEnqueue(ok) == IF ok THEN "ok" ELSE "both"

\* Publish / PublishReplaceable up to the return of RelayPool.Publish
PublishSend(e, m) ==
    /\ inflight = NoCall
    /\ pubCalls < MaxPublishes
    /\ pubCalls' = pubCalls + 1
    /\ IF m = "PublishReplaceable" /\ ~HasDTag(e)
       THEN /\ pubRes' = [ev |-> e, method |-> m, res |-> "invalid"]
            /\ UNCHANGED <<signCalls, offers, poolRes, received, inflight>>
       ELSE \/ /\ signCalls' = signCalls + 1
               /\ pubRes' = [ev |-> e, method |-> m, res |-> "sign"]
               /\ UNCHANGED <<offers, poolRes, received, inflight>>
            \/ LET ev == Signed(e, signCalls + 1)
                   pp == PoolPublish(writeRelays, poolClosed, accepting, received, ev.id)
               IN  /\ signCalls' = signCalls + 1
                   /\ offers' = pp.offered
                   /\ poolRes' = pp.res
                   /\ received' = pp.recv
                   /\ IF pp.res = PoolOk
                      THEN /\ pubRes' = [ev |-> ev, method |-> m, res |-> "ok"]
                           /\ UNCHANGED inflight
                      ELSE /\ inflight' = [ev |-> ev, method |-> m, err |-> pp.res]
                           /\ UNCHANGED pubRes
    /\ UNCHANGED <<writeRelays, poolClosed, accepting, spoolVars>>
    /\ UNCHANGED <<fsVars, loopVars, extVars>>

\* Publish after a failed broadcast: Spool.Enqueue and the return
PublishSpool ==
    /\ inflight # NoCall
    /\ LET q == Enqueue(spoolFile, inflight.ev, now)
       IN  /\ spoolFile' = q.file
           /\ pubRes' = [ev |-> inflight.ev, method |-> inflight.method,
                         res |-> AfterEnqueue(q.ok)]
    /\ inflight' = NoCall
    /\ UNCHANGED <<archiveFile, now, drains, drainRes, pubCalls, poolVars>>
    /\ UNCHANGED <<fsVars, loopVars, extVars>>

\* Spool.Drain (DrainSpool), under the mutex of the spool
Drain ==
    /\ drains < MaxDrains
    /\ drains' = drains + 1
    /\ LET entries == readAllLocked(spoolFile)
           st == DrainLoop(entries, writeRelays, poolClosed, accepting, now,
                           [remaining |-> <<>>, recv |-> received, sent |-> 0,
                            failed |-> 0, offers |-> offers, poolRes |-> poolRes])
       IN  IF Len(entries) = 0
           THEN /\ drainRes' = [sent |-> 0, failed |-> 0]
                /\ UNCHANGED <<spoolFile, received, offers, poolRes>>
           ELSE /\ spoolFile' = writeAllLocked(st.remaining)
                /\ received' = st.recv
                /\ offers' = st.offers
                /\ poolRes' = st.poolRes
                /\ drainRes' = [sent |-> st.sent, failed |-> st.failed]
    /\ UNCHANGED <<writeRelays, poolClosed, accepting, signCalls>>
    /\ UNCHANGED <<archiveFile, now, publisherVars>>
    /\ UNCHANGED <<fsVars, loopVars, extVars>>

\* Spool.ArchiveOld(maxAge)
ArchiveAges == {0, TickStep}

ArchiveOld(maxAge) ==
    LET entries == readAllLocked(spoolFile)
        old == SelectSeq(entries, LAMBDA l : now - l.spooledAt > maxAge)
        active == SelectSeq(entries, LAMBDA l : ~(now - l.spooledAt > maxAge))
    IN  /\ IF Len(old) = 0
           THEN UNCHANGED <<spoolFile, archiveFile>>
           ELSE /\ archiveFile' = archiveFile \o old
                /\ spoolFile' = writeAllLocked(active)
        /\ UNCHANGED <<now, drains, drainRes, publisherVars, poolVars>>
        /\ UNCHANGED <<fsVars, loopVars, extVars>>

\* time passes
Tick ==
    /\ now + TickStep <= MaxNow
    /\ now' = now + TickStep
    /\ UNCHANGED <<spoolFile, archiveFile, drains, drainRes, publisherVars, poolVars>>
    /\ UNCHANGED <<fsVars, loopVars, extVars>>

\* a relay starts or stops accepting events
SetRelay(r) ==
    /\ accepting' = IF r \in accepting THEN accepting \ {r} ELSE accepting \cup {r}
    /\ UNCHANGED <<writeRelays, poolClosed, received, offers, poolRes, signCalls>>
    /\ UNCHANGED <<publisherVars, spoolVars>>
    /\ UNCHANGED <<fsVars, loopVars, extVars>>

\* Publisher.Close: RelayPool.Close
ClosePool ==
    /\ ~poolClosed
    /\ poolClosed' = TRUE
    /\ writeRelays' = <<>>
    /\ UNCHANGED <<accepting, received, offers, poolRes, signCalls>>
    /\ UNCHANGED <<publisherVars, spoolVars>>
    /\ UNCHANGED <<fsVars, loopVars, extVars>>

\* NewRelayPool keeps the relays that connected, in the order of the
\* configuration; the runtime directory may hold a spool file with a line
\* that is not JSON
ConnectedLists == {<<>>, <<1, 2>>}

InitNostr ==
    /\ LoopAtRest
    /\ FsAtRest
    /\ ExtAtRest
    /\ writeRelays \in ConnectedLists
    /\ poolClosed = FALSE
    /\ accepting = {}
    /\ received = [r \in Relays |-> <<>>]
    /\ offers = <<>>
    /\ poolRes = PoolOk
    /\ signCalls = 0
    /\ inflight = NoCall
    /\ pubCalls = 0
    /\ pubRes = NoPubRes
    /\ spoolFile \in {<<>>, <<MalformedLine>>}
    /\ archiveFile = <<>>
    /\ now = 0
    /\ drains = 0
    /\ drainRes = NoDrainRes

NextNostr ==
    \/ \E e \in EventInputs, m \in Methods : PublishSend(e, m)
    \/ PublishSpool
    \/ Drain
    \/ \E a \in ArchiveAges : ArchiveOld(a)
    \/ Tick
    \/ \E r \in Relays : SetRelay(r)
    \/ ClosePool

SpecNostr == InitNostr /\ [][NextNostr]_vars

(***************************************************************************)
(* Spool.Drain on a spool that earlier drains have left behind: entries    *)
(* that failed `attempts` times, the last time at second 0, read at the    *)
(* edges of the backoff windows                                            *)
(***************************************************************************)
RetriedEntry(id, attempts) ==
    [EntryOf(Signed(Event(KindLogStatus, 0, FALSE), id), 0) EXCEPT
        !.attempts = attempts,
        !.lastAttempt = IF attempts = 0 THEN NoTime ELSE 0,
        !.lastError = IF attempts = 0 THEN "none" ELSE "allfailed"]

SpoolFiles ==
    {<<>>}
    \cup {<<RetriedEntry(1, a)>> : a \in 0..MaxAttempts}
    \cup {<<RetriedEntry(1, a), RetriedEntry(2, b)>> : a, b \in 0..MaxAttempts}
    \cup {<<RetriedEntry(1, a), MalformedLine, RetriedEntry(2, 0)>> : a \in 0..MaxAttempts}

DrainTimes == {0, 29, 30, 59, 60, 119, 120, 299, 300}

InitDrain ==
    /\ LoopAtRest
    /\ FsAtRest
    /\ ExtAtRest
    /\ writeRelays \in ConnectedLists
    /\ poolClosed = FALSE
    /\ accepting = {}
    /\ received = [r \in Relays |-> <<>>]
    /\ offers = <<>>
    /\ poolRes = PoolOk
    /\ signCalls = 0
    /\ inflight = NoCall
    /\ pubCalls = 0
    /\ pubRes = NoPubRes
    /\ spoolFile \in SpoolFiles
    /\ archiveFile = <<>>
    /\ now \in DrainTimes
    /\ drains = 0
    /\ drainRes = NoDrainRes

NextDrain ==
    \/ Drain
    \/ Tick
    \/ \E r \in Relays : SetRelay(r)
    \/ ClosePool

SpecDrain == InitDrain /\ [][NextDrain]_vars

(***************************************************************************)
(* ContextManager.Truncate on the conversations runTask builds             *)
(***************************************************************************)
SystemTurn == Msg("system", SystemPromptLen, <<>>, NoId, "", FALSE)
UserTurn == Msg("user", TaskLen, <<>>, NoId, "", FALSE)

\* the turns runTask appends: an assistant turn with one tool call, and the
\* tool turn of a command with a short or a long output
AppendedTurns ==
    {UserTurn,
     AssistantTurn([ok |-> TRUE, len |-> RespLen,
                    calls |-> <<ToolCall(1, "shell_exec")>>, usage |-> NoUsage])}
    \cup {ToolTurn(ToolCall(1, "shell_exec"), [err |-> "none", len |-> n]) : n \in OutLens}

\* a system turn is only ever the first turn
AppendTurn(m) ==
    /\ Len(conv) < MaxConvLen
    /\ m = SystemTurn => conv = <<>>
    /\ conv' = Append(conv, m)
    /\ UNCHANGED truncCalls
    /\ UNCHANGED <<fsVars, loopVars, nostrVars, retryVars, evVars, hbVars, mcpVars, cmdVars,
                   editVars, stepVars, procVars, relayVars>>

\* messages = l.ctxMgr.Truncate(messages)
TruncateConv ==
    /\ truncCalls < MaxTruncates
    /\ conv' = Truncate(conv)
    /\ truncCalls' = truncCalls + 1
    /\ UNCHANGED <<fsVars, loopVars, nostrVars, retryVars, evVars, hbVars, mcpVars, cmdVars,
                   editVars, stepVars, procVars, relayVars>>

InitTrunc == LoopAtRest /\ FsAtRest /\ NostrAtRest /\ ExtAtRest

NextTrunc ==
    \/ \E m \in AppendedTurns \cup {SystemTurn} : AppendTurn(m)
    \/ TruncateConv

SpecTrunc == InitTrunc /\ [][NextTrunc]_vars

(***************************************************************************)
(* llm.WithRetry: the retry decorator around a chat client                 *)
(***************************************************************************)
\* strings.ToLower, word by word
ToLower(msg) ==
    [k \in 1..Len(msg) |->
        IF msg[k] = "API" THEN "api"
        ELSE IF msg[k] = "Forbidden" THEN "forbidden"
        ELSE msg[k]]

\* strings.Contains
Contains(msg, sub) ==
    \E i \in 1..(Len(msg) + 1 - Len(sub)) : SubSeq(msg, i, i + Len(sub) - 1) = sub

isRetryableLLMError(err) ==
    IF err.ctx \in {"cancel", "deadline"} THEN FALSE
    ELSE LET msg == ToLower(err.msg)
         IN  IF Contains(msg, <<"api", " ", "error", " ", "4">>) THEN FALSE
             ELSE IF Contains(msg, <<"status", " ", "4">>) THEN FALSE
             ELSE IF \/ Contains(msg, <<" ", "4", "0", "0">>)
                     \/ Contains(msg, <<" ", "4", "0", "1">>)
                     \/ Contains(msg, <<" ", "4", "0", "3">>)
                     \/ Contains(msg, <<" ", "4", "0", "4">>)
                  THEN FALSE
             ELSE TRUE

\* ctx.Err()
CtxError(c) ==
    ChatErr(c, IF c = "cancel" THEN <<"context", " ", "canceled">>
               ELSE <<"context", " ", "deadline", " ", "exceeded">>)

\* what the wrapped client's Chat can return
InnerOutcomes ==
    {ChatOk,
     ChatErr("none", <<"API", " ", "error", " ", "5", "0", "0", ":", " ", "overloaded">>),
     ChatErr("none", <<"API", " ", "error", " ", "4", "0", "1", ":", " ", "unauthorized">>),
     ChatErr("none", <<"not", " ", "found", ":", " ", "4", "0", "4">>),
     ChatErr("none", <<"4", "0", "3", " ", "Forbidden">>),
     ChatErr("none", <<"connection", " ", "reset">>),
     CtxError("cancel"),
     ChatErr("deadline", <<"chat", ":", " ", "context", " ", "deadline", " ", "exceeded">>)}

\* variant of IsLastAttempt: one more attempt is made
IsLastAttemptLate(attempt, n) == attempt = n + 1

\* attempt == c.cfg.MaxRetries
IsLastAttempt(attempt, n) == attempt = n

\* WithRetry(inner, cfg) followed by a call of Chat on what it returned: the
\* inner client itself when cfg.MaxRetries <= 0
WithRetryChat(n) ==
    /\ rpc = "idle"
    /\ rMax' = n
    /\ rpc' = IF n <= 0 THEN "inner" ELSE "top"
    /\ UNCHANGED <<rAttempt, rOutcomes, rSleeps, rCtx, rRes>>
    /\ UNCHANGED <<fsVars, loopVars, nostrVars, truncVars, evVars, hbVars, mcpVars, cmdVars,
                   editVars, stepVars, procVars, relayVars>>

\* Chat of the undecorated client
InnerChat(o) ==
    /\ rpc = "inner"
    /\ rOutcomes' = Append(rOutcomes, o)
    /\ rRes' = o
    /\ rpc' = "done"
    /\ UNCHANGED <<rMax, rAttempt, rSleeps, rCtx>>
    /\ UNCHANGED <<fsVars, loopVars, nostrVars, truncVars, evVars, hbVars, mcpVars, cmdVars,
                   editVars, stepVars, procVars, relayVars>>

\* one turn of the loop of retryingClient.Chat, up to its return or to the
\* start of the backoff timer
RetryAttempt(o) ==
    /\ rpc = "top"
    /\ IF rCtx # "none"
       THEN /\ rRes' = CtxError(rCtx)
            /\ rpc' = "done"
            /\ UNCHANGED <<rOutcomes, rSleeps>>
       ELSE /\ rOutcomes' = Append(rOutcomes, o)
            /\ IF o.ok \/ ~isRetryableLLMError(o) \/ IsLastAttempt(rAttempt, rMax)
               THEN /\ rRes' = o
                    /\ rpc' = "done"
                    /\ UNCHANGED rSleeps
               ELSE /\ rpc' = "sleeping"
                    /\ rSleeps' = rSleeps + 1
                    /\ UNCHANGED rRes
    /\ UNCHANGED <<rMax, rAttempt, rCtx>>
    /\ UNCHANGED <<fsVars, loopVars, nostrVars, truncVars, evVars, hbVars, mcpVars, cmdVars,
                   editVars, stepVars, procVars, relayVars>>

\* the select on ctx.Done() and the timer: the timer fires
TimerFires ==
    /\ rpc = "sleeping"
    /\ rAttempt' = rAttempt + 1
    /\ rpc' = "top"
    /\ UNCHANGED <<rMax, rOutcomes, rSleeps, rCtx, rRes>>
    /\ UNCHANGED <<fsVars, loopVars, nostrVars, truncVars, evVars, hbVars, mcpVars, cmdVars,
                   editVars, stepVars, procVars, relayVars>>

\* the select on ctx.Done() and the timer: the context is done
SleepCancelled ==
    /\ rpc = "sleeping"
    /\ rCtx # "none"
    /\ rRes' = CtxError(rCtx)
    /\ rpc' = "done"
    /\ UNCHANGED <<rMax, rAttempt, rOutcomes, rSleeps, rCtx>>
    /\ UNCHANGED <<fsVars, loopVars, nostrVars, truncVars, evVars, hbVars, mcpVars, cmdVars,
                   editVars, stepVars, procVars, relayVars>>

\* the caller's context is cancelled or its deadline passes
RetryCtxDone(c) ==
    /\ rCtx = "none"
    /\ rpc # "done"
    /\ rCtx' = c
    /\ UNCHANGED <<rMax, rpc, rAttempt, rOutcomes, rSleeps, rRes>>
    /\ UNCHANGED <<fsVars, loopVars, nostrVars, truncVars, evVars, hbVars, mcpVars, cmdVars,
                   editVars, stepVars, procVars, relayVars>>

InitRetry == LoopAtRest /\ FsAtRest /\ NostrAtRest /\ ExtAtRest

NextRetry ==
    \/ \E n \in (0 - 1)..MaxRetries : WithRetryChat(n)
    \/ \E o \in InnerOutcomes : InnerChat(o)
    \/ \E o \in InnerOutcomes : RetryAttempt(o)
    \/ TimerFires
    \/ SleepCancelled
    \/ \E c \in {"cancel", "deadline"} : RetryCtxDone(c)

SpecRetry == InitRetry /\ [][NextRetry]_vars

(***************************************************************************)
(* The events the system builds and hands to the Publisher.  A string is   *)
(* the sequence of its parts, "" is <<>>; a tag is its name and its value. *)
(***************************************************************************)
KindProfile == 0
KindChannelCreate == 40
KindChannelMessage == 42
KindDMRelayList == 10050
ProtocolVersion == <<"1">>

Tag(name, value) == [name |-> name, value |-> value]
NostrEvent(kind, tags) == [kind |-> kind, tags |-> tags]

BaseTags(rig, role, actor) ==
    <<Tag("gt", ProtocolVersion)>>
    \o (IF rig # <<>> THEN <<Tag("rig", rig)>> ELSE <<>>)
    \o (IF role # <<>> THEN <<Tag("role", role)>> ELSE <<>>)
    \o (IF actor # <<>> THEN <<Tag("actor", actor)>> ELSE <<>>)

ReplaceableTag(d) == Tag("d", d)

NewLogStatusEvent(rig, role, actor) ==
    NostrEvent(KindLogStatus,
               BaseTags(rig, role, actor)
               \o <<Tag("type", <<"session_start">>), Tag("visibility", <<"feed">>)>>)

NewLifecycleEvent(rig, role, actor, instanceID, action) ==
    NostrEvent(KindLifecycle,
               BaseTags(rig, role, actor)
               \o <<ReplaceableTag(instanceID), Tag("type", action)>>)

buildLifecycleEvent(actor, rig, role, instance, status) ==
    NostrEvent(KindLifecycle,
               BaseTags(rig, role, actor)
               \o <<ReplaceableTag(rig \o <<"/">> \o role \o <<"/">> \o instance),
                    Tag("instance", instance), Tag("status", status)>>)

\* the agents events are built for: AgentIdentity and the instance of its
\* heartbeat publisher
Agents ==
    {[rig |-> rig, role |-> role, actor |-> actor, instance |-> inst] :
        rig \in {<<>>, <<"gastown">>},
        role \in {<<"polecat">>, <<"witness">>},
        actor \in {<<"gastown", "/", "polecat", "/", "Toast">>,
                   <<"gastown", "/", "witness">>},
        inst \in {<<"Toast">>, <<"1">>}}

Call(method, ev, a) == [method |-> method, ev |-> ev, agent |-> a]

HandOver(cs) ==
    /\ Len(handed) < MaxHanded
    /\ handed' = handed \o cs
    /\ UNCHANGED <<fsVars, loopVars, nostrVars, truncVars, retryVars, hbVars, mcpVars, cmdVars,
                   editVars, stepVars, procVars, relayVars>>

\* the events bridge: an activity event goes out as a log/status event
PublishActivity(a) ==
    HandOver(<<Call("Publish", NewLogStatusEvent(a.rig, a.role, a.actor), a)>>)

RetireAgent(a) ==
    HandOver(<<Call("PublishReplaceable",
                    NewLifecycleEvent(a.rig, a.role, a.actor, a.actor, <<"retire">>), a)>>)

PublishDeath(a) ==
    HandOver(<<Call("PublishReplaceable",
                    buildLifecycleEvent(a.actor, a.rig, a.role, a.instance, <<"dead">>), a)>>)

CreateChannel(a) ==
    HandOver(<<Call("Publish",
                    NostrEvent(KindChannelCreate,
                               <<Tag("gt", ProtocolVersion), Tag("channel_type", <<"ops">>)>>
                               \o (IF a.rig # <<>> THEN <<Tag("rig", a.rig)>> ELSE <<>>)),
                    a)>>)

PostChannelMessage(a, mentions) ==
    HandOver(<<Call("Publish",
                    NostrEvent(KindChannelMessage,
                               <<Tag("e", <<"channel">>)>>
                               \o [k \in 1..mentions |-> Tag("p", <<"pubkey">>)]),
                    a)>>)

PublishProfile(a) ==
    HandOver(<<Call("Publish", NostrEvent(KindProfile, <<>>), a)>>)

\* the relay list, and the DM relay list when DM relays are configured and
\* the first Publish did not fail
PublishRelayLists(a, dmRelays, firstOk) ==
    HandOver(<<Call("Publish",
                    NostrEvent(KindRelayList,
                               <<Tag("r", <<"wss://read">>), Tag("r", <<"wss://write">>)>>),
                    a)>>
             \o (IF dmRelays /\ firstOk
                 THEN <<Call("Publish",
                             NostrEvent(KindDMRelayList, <<Tag("relay", <<"wss://dm">>)>>), a)>>
                 ELSE <<>>))

InitEvents == LoopAtRest /\ FsAtRest /\ NostrAtRest /\ ExtAtRest

NextEvents ==
    \/ \E a \in Agents : PublishActivity(a)
    \/ \E a \in Agents : RetireAgent(a)
    \/ \E a \in Agents : PublishDeath(a)
    \/ \E a \in Agents : CreateChannel(a)
    \/ \E a \in Agents, n \in 0..1 : PostChannelMessage(a, n)
    \/ \E a \in Agents : PublishProfile(a)
    \/ \E a \in Agents, dm \in BOOLEAN, ok \in BOOLEAN : PublishRelayLists(a, dm, ok)

SpecEvents == InitEvents /\ [][NextEvents]_vars

(***************************************************************************)
(* HeartbeatPublisher: Start, the ticker goroutine, Stop and the setters.  *)
(* publishHeartbeat is two steps: it reads the content under h.mu, then    *)
(* builds the event and hands it to PublishReplaceable.                    *)
(***************************************************************************)
LifecycleEvent(status, by) == [status |-> status, by |-> by]

\* Start: context and cancel function, publishHeartbeat reads the content
HbStart ==
    /\ hpc = "new"
    /\ hContent' = hbStatus
    /\ hpc' = "startPublish"
    /\ UNCHANGED <<hbStatus, hbIssue, hbCancelled, hbDone, tpc, tContent, hbEvents, hbSets>>
    /\ UNCHANGED <<fsVars, loopVars, nostrVars, truncVars, retryVars, evVars, mcpVars, cmdVars,
                   editVars, stepVars, procVars, relayVars>>

\* Start: the initial event goes out and the goroutine is started
HbStartPublish ==
    /\ hpc = "startPublish"
    /\ hbEvents' = Append(hbEvents, LifecycleEvent(hContent, "start"))
    /\ tpc' = "select"
    /\ hpc' = "started"
    /\ UNCHANGED <<hbStatus, hbIssue, hbCancelled, hbDone, hContent, tContent, hbSets>>
    /\ UNCHANGED <<fsVars, loopVars, nostrVars, truncVars, retryVars, evVars, mcpVars, cmdVars,
                   editVars, stepVars, procVars, relayVars>>

\* goroutine: case <-ticker.C, publishHeartbeat reads the content
TickerTick ==
    /\ tpc = "select"
    /\ Len(hbEvents) < MaxHbEvents
    /\ tContent' = hbStatus
    /\ tpc' = "publish"
    /\ UNCHANGED <<hbStatus, hbIssue, hbCancelled, hbDone, hpc, hContent, hbEvents, hbSets>>
    /\ UNCHANGED <<fsVars, loopVars, nostrVars, truncVars, retryVars, evVars, mcpVars, cmdVars,
                   editVars, stepVars, procVars, relayVars>>

\* goroutine: the event goes out
TickerPublish ==
    /\ tpc = "publish"
    /\ hbEvents' = Append(hbEvents, LifecycleEvent(tContent, "tick"))
    /\ tpc' = "select"
    /\ UNCHANGED <<hbStatus, hbIssue, hbCancelled, hbDone, hpc, hContent, tContent, hbSets>>
    /\ UNCHANGED <<fsVars, loopVars, nostrVars, truncVars, retryVars, evVars, mcpVars, cmdVars,
                   editVars, stepVars, procVars, relayVars>>

\* goroutine: case <-ctx.Done(), return, the deferred close(h.done)
TickerExit ==
    /\ tpc = "select"
    /\ hbCancelled
    /\ tpc' = "exited"
    /\ hbDone' = TRUE
    /\ UNCHANGED <<hbStatus, hbIssue, hbCancelled, hpc, hContent, tContent, hbEvents, hbSets>>
    /\ UNCHANGED <<fsVars, loopVars, nostrVars, truncVars, retryVars, evVars, mcpVars, cmdVars,
                   editVars, stepVars, procVars, relayVars>>

\* Stop: h.status = StatusRetiring under h.mu
HbStopMark ==
    /\ hpc = "started"
    /\ hbStatus' = "retiring"
    /\ hpc' = "retiringRead"
    /\ UNCHANGED <<hbIssue, hbCancelled, hbDone, hContent, tpc, tContent, hbEvents, hbSets>>
    /\ UNCHANGED <<fsVars, loopVars, nostrVars, truncVars, retryVars, evVars, mcpVars, cmdVars,
                   editVars, stepVars, procVars, relayVars>>

\* Stop: a publishHeartbeat reads the content
HbStopRead ==
    /\ hpc \in {"retiringRead", "deadRead"}
    /\ hContent' = hbStatus
    /\ hpc' = IF hpc = "retiringRead" THEN "retiringPublish" ELSE "deadPublish"
    /\ UNCHANGED <<hbStatus, hbIssue, hbCancelled, hbDone, tpc, tContent, hbEvents, hbSets>>
    /\ UNCHANGED <<fsVars, loopVars, nostrVars, truncVars, retryVars, evVars, mcpVars, cmdVars,
                   editVars, stepVars, procVars, relayVars>>

\* Stop: the event of a publishHeartbeat goes out
HbStopPublish ==
    /\ hpc \in {"retiringPublish", "deadPublish"}
    /\ hbEvents' = Append(hbEvents, LifecycleEvent(hContent, "stop"))
    /\ hpc' = IF hpc = "retiringPublish" THEN "cancel" ELSE "stopped"
    /\ UNCHANGED <<hbStatus, hbIssue, hbCancelled, hbDone, hContent, tpc, tContent, hbSets>>
    /\ UNCHANGED <<fsVars, loopVars, nostrVars, truncVars, retryVars, evVars, mcpVars, cmdVars,
                   editVars, stepVars, procVars, relayVars>>

\* Stop: h.cancel()
HbStopCancel ==
    /\ hpc = "cancel"
    /\ hbCancelled' = TRUE
    /\ hpc' = "wait"
    /\ UNCHANGED <<hbStatus, hbIssue, hbDone, hContent, tpc, tContent, hbEvents, hbSets>>
    /\ UNCHANGED <<fsVars, loopVars, nostrVars, truncVars, retryVars, evVars, mcpVars, cmdVars,
                   editVars, stepVars, procVars, relayVars>>

\* Stop: the select on h.done and time.After(5 s), then h.status = StatusDead.
\* The timer wins only while the goroutine is held up inside a publish.
HbStopWait ==
    /\ hpc = "wait"
    /\ hbDone \/ tpc = "publish"
    /\ hbStatus' = "dead"
    /\ hpc' = "deadRead"
    /\ UNCHANGED <<hbIssue, hbCancelled, hbDone, hContent, tpc, tContent, hbEvents, hbSets>>
    /\ UNCHANGED <<fsVars, loopVars, nostrVars, truncVars, retryVars, evVars, mcpVars, cmdVars,
                   editVars, stepVars, procVars, relayVars>>

SetStatus(status) ==
    /\ hbSets < MaxHbSets
    /\ hbStatus' = status
    /\ hbSets' = hbSets + 1
    /\ UNCHANGED <<hbIssue, hbCancelled, hbDone, hpc, hContent, tpc, tContent, hbEvents>>
    /\ UNCHANGED <<fsVars, loopVars, nostrVars, truncVars, retryVars, evVars, mcpVars, cmdVars,
                   editVars, stepVars, procVars, relayVars>>

SetCurrentIssue(issueID) ==
    /\ hbSets < MaxHbSets
    /\ hbIssue' = issueID
    /\ hbStatus' = IF issueID # "" THEN "busy" ELSE "ready"
    /\ hbSets' = hbSets + 1
    /\ UNCHANGED <<hbCancelled, hbDone, hpc, hContent, tpc, tContent, hbEvents>>
    /\ UNCHANGED <<fsVars, loopVars, nostrVars, truncVars, retryVars, evVars, mcpVars, cmdVars,
                   editVars, stepVars, procVars, relayVars>>

InitHeartbeat == LoopAtRest /\ FsAtRest /\ NostrAtRest /\ ExtAtRest

NextHeartbeat ==
    \/ HbStart
    \/ HbStartPublish
    \/ TickerTick
    \/ TickerPublish
    \/ TickerExit
    \/ HbStopMark
    \/ HbStopRead
    \/ HbStopPublish
    \/ HbStopCancel
    \/ HbStopWait
    \/ \E st \in {"ready", "busy"} : SetStatus(st)
    \/ \E i \in {"", "gt-1"} : SetCurrentIssue(i)

SpecHeartbeat == InitHeartbeat /\ [][NextHeartbeat]_vars

(***************************************************************************)
(* mcp.Server: tool registration and the HTTP endpoints.  A header value   *)
(* is the sequence of its parts; a missing header is <<>>.                 *)
(***************************************************************************)
McpToolNames == {"file_read", "shell_exec", "git_status"}
Tokens == {"", "secret"}
AuthHeaders ==
    {<<>>, <<"Bearer ", "secret">>, <<"Bearer ", "wrong">>, <<"secret">>, <<"bearer ", "secret">>}
HttpMethods == {"GET", "POST", "DELETE"}
\* what the body of a tools/call request decodes to: nothing, or a name
CallBodies == {"undecodable"} \cup McpToolNames \cup {"nosuch"}
HandlerOutcomes == {"ok", "error"}

Response(endpoint, method, auth, reqBody, outcome, status, isError, body) ==
    [endpoint |-> endpoint, method |-> method, auth |-> auth, reqBody |-> reqBody,
     outcome |-> outcome, status |-> status, isError |-> isError, body |-> body]

\* variant of Authorized: any bearer token is let through
AuthorizedAnyBearer(auth) == mToken = "" \/ (Len(auth) = 2 /\ auth[1] = "Bearer ")

\* authMiddleware: next is called
Authorized(auth) == mToken = "" \/ auth = <<"Bearer ", mToken>>

\* http.Error(w, "Unauthorized", http.StatusUnauthorized)
Unauthorized(endpoint, method, auth, reqBody) ==
    /\ mResp' = Response(endpoint, method, auth, reqBody, "none", 401, FALSE, <<"Unauthorized">>)
    /\ UNCHANGED <<mExecs, mLists, mStreams>>

\* the orders in which a range over the map s.tools can visit its keys
MapOrders(S) ==
    {o \in [1..Cardinality(S) -> S] : \A i, j \in 1..Cardinality(S) : o[i] = o[j] => i = j}

RegisterTool(name) ==
    /\ mTools' = mTools \cup {name}
    /\ mRegOrder' = IF name \in mTools THEN mRegOrder ELSE Append(mRegOrder, name)
    /\ UNCHANGED <<mToken, mResp, mExecs, mLists, mStreams, mReqs>>
    /\ UNCHANGED <<fsVars, loopVars, nostrVars, truncVars, retryVars, evVars, hbVars, cmdVars,
                   editVars, stepVars, procVars, relayVars>>

handleToolsList(method, auth) ==
    /\ mReqs < MaxRequests
    /\ mReqs' = mReqs + 1
    /\ IF ~Authorized(auth) THEN Unauthorized("list", method, auth, "none")
       ELSE IF method \notin {"GET", "POST"}
       THEN /\ mResp' = Response("list", method, auth, "none", "none", 405, FALSE,
                                 <<"Method not allowed">>)
            /\ UNCHANGED <<mExecs, mLists, mStreams>>
       ELSE /\ \E order \in MapOrders(mTools) :
                    mResp' = Response("list", method, auth, "none", "none", 200, FALSE, order)
            /\ mLists' = mLists + 1
            /\ UNCHANGED <<mExecs, mStreams>>
    /\ UNCHANGED <<mToken, mTools, mRegOrder>>
    /\ UNCHANGED <<fsVars, loopVars, nostrVars, truncVars, retryVars, evVars, hbVars, cmdVars,
                   editVars, stepVars, procVars, relayVars>>

\* variant of ToolCallResult: an unknown tool is answered 404
ToolCallResultNotFound(name, outcome) ==
    IF name \notin mTools
    THEN [status |-> 404, isError |-> TRUE, body |-> <<"Unknown tool: ", name>>]
    ELSE IF outcome = "error"
    THEN [status |-> 200, isError |-> TRUE, body |-> <<"Error: ", "handler failed">>]
    ELSE [status |-> 200, isError |-> FALSE, body |-> <<"result">>]

\* handleToolsCall once the request is decoded: status, isError and text
ToolCallResult(name, outcome) ==
    IF name \notin mTools
    THEN [status |-> 200, isError |-> TRUE, body |-> <<"Unknown tool: ", name>>]
    ELSE IF outcome = "error"
    THEN [status |-> 200, isError |-> TRUE, body |-> <<"Error: ", "handler failed">>]
    ELSE [status |-> 200, isError |-> FALSE, body |-> <<"result">>]

handleToolsCall(method, auth, reqBody, outcome) ==
    /\ mReqs < MaxRequests
    /\ mReqs' = mReqs + 1
    /\ IF ~Authorized(auth) THEN Unauthorized("call", method, auth, reqBody)
       ELSE IF method # "POST"
       THEN /\ mResp' = Response("call", method, auth, reqBody, "none", 405, FALSE,
                                 <<"Method not allowed">>)
            /\ UNCHANGED <<mExecs, mLists, mStreams>>
       ELSE IF reqBody = "undecodable"
       THEN /\ mResp' = Response("call", method, auth, reqBody, "none", 400, FALSE,
                                 <<"Invalid request body">>)
            /\ UNCHANGED <<mExecs, mLists, mStreams>>
       ELSE LET ran == reqBody \in mTools
                res == ToolCallResult(reqBody, outcome)
            IN  /\ mResp' = Response("call", method, auth, reqBody,
                                     IF ran THEN outcome ELSE "none",
                                     res.status, res.isError, res.body)
                /\ mExecs' = IF ran THEN mExecs + 1 ELSE mExecs
                /\ UNCHANGED <<mLists, mStreams>>
    /\ UNCHANGED <<mToken, mTools, mRegOrder>>
    /\ UNCHANGED <<fsVars, loopVars, nostrVars, truncVars, retryVars, evVars, hbVars, cmdVars,
                   editVars, stepVars, procVars, relayVars>>

\* not behind authMiddleware
handleHealth(method, auth) ==
    /\ mReqs < MaxRequests
    /\ mReqs' = mReqs + 1
    /\ mResp' = Response("health", method, auth, "none", "none", 200, FALSE, <<"ok">>)
    /\ UNCHANGED <<mToken, mTools, mRegOrder, mExecs, mLists, mStreams>>
    /\ UNCHANGED <<fsVars, loopVars, nostrVars, truncVars, retryVars, evVars, hbVars, cmdVars,
                   editVars, stepVars, procVars, relayVars>>

\* the stream is opened and the connected event is sent
handleSSE(method, auth) ==
    /\ mReqs < MaxRequests
    /\ mReqs' = mReqs + 1
    /\ IF ~Authorized(auth) THEN Unauthorized("sse", method, auth, "none")
       ELSE /\ mResp' = Response("sse", method, auth, "none", "none", 200, FALSE,
                                 <<"event: connected">>)
            /\ mStreams' = mStreams + 1
            /\ UNCHANGED <<mExecs, mLists>>
    /\ UNCHANGED <<mToken, mTools, mRegOrder>>
    /\ UNCHANGED <<fsVars, loopVars, nostrVars, truncVars, retryVars, evVars, hbVars, cmdVars,
                   editVars, stepVars, procVars, relayVars>>

\* NewServer(addr, executor, authToken)
InitMcp ==
    /\ LoopAtRest
    /\ FsAtRest
    /\ NostrAtRest
    /\ TruncAtRest
    /\ RetryAtRest
    /\ handed = <<>>
    /\ HeartbeatAtRest
    /\ CmdAtRest /\ EditAtRest /\ SpoolStepsAtRest /\ ProcsAtRest /\ RelaysAtRest
    /\ mToken \in Tokens
    /\ mTools = {}
    /\ mRegOrder = <<>>
    /\ mResp = NoResponse
    /\ mExecs = 0
    /\ mLists = 0
    /\ mStreams = 0
    /\ mReqs = 0

NextMcp ==
    \/ \E n \in McpToolNames : RegisterTool(n)
    \/ \E m \in HttpMethods, h \in AuthHeaders : handleToolsList(m, h)
    \/ \E m \in HttpMethods, h \in AuthHeaders, b \in CallBodies, o \in HandlerOutcomes :
            handleToolsCall(m, h, b, o)
    \/ \E m \in HttpMethods, h \in AuthHeaders : handleHealth(m, h)
    \/ \E m \in HttpMethods, h \in AuthHeaders : handleSSE(m, h)

SpecMcp == InitMcp /\ [][NextMcp]_vars

(***************************************************************************)
(* Executor.runCommand, and what runTask and the tool server make of the   *)
(* (output, error) pair Execute returns.  A text is the sequence of its    *)
(* characters and fixed parts.                                             *)
(***************************************************************************)
MaxOutputSize == 102400

CmdTools == {"shell_exec", "git_status"}
\* how cmd.Run ends: exit 0, a non-zero exit, the deadline of the command's
\* context, or the cancellation of the caller's context
RunEnds == {"ok", "exit", "timeout", "cancel"}
CmdTexts == {<<>>, <<"a">>, <<"b">>, <<"a", "b">>}

\* the error cmd.Run returns, wrapped by runCommand
runCommandError(how) ==
    IF how = "ok" THEN <<>>
    ELSE IF how = "timeout" THEN <<"command timed out after ", "2m0s">>
    ELSE IF how = "exit" THEN <<"command failed: ", "exit status 1">>
    ELSE <<"command failed: ", "signal: killed">>

\* the output runCommand returns: stdout, then stderr under its label, cut
\* at MaxOutputSize
runCommandOutput(stdout, stderr) ==
    LET withErr == IF Len(stderr) > 0
                   THEN (IF stdout # <<>> THEN stdout \o <<"\n">> ELSE stdout)
                        \o <<"STDERR: ">> \o stderr
                   ELSE stdout
    IN  IF Len(withErr) > MaxOutputSize
        THEN SubSeq(withErr, 1, MaxOutputSize) \o <<"\n... (truncated)">>
        ELSE withErr

\* runTask: the content of the tool turn
LoopResult(tool, output, err) ==
    IF err # <<>> THEN <<"Error executing ", tool, ": ">> \o err ELSE output

\* handleToolsCall: the text of the response
ServerResult(output, err) ==
    IF err # <<>> THEN <<"Error: ">> \o err ELSE output

\* a tool call that runs a subprocess, made by runTask
ExecuteInLoop(tool, how, stdout, stderr) ==
    /\ cRuns < MaxRuns
    /\ cRuns' = cRuns + 1
    /\ cRun' = [tool |-> tool, how |-> how, stdout |-> stdout, stderr |-> stderr]
    /\ cVia' = "loop"
    /\ cIsError' = FALSE
    /\ cText' = LoopResult(tool, runCommandOutput(stdout, stderr), runCommandError(how))
    /\ UNCHANGED <<fsVars, loopVars, nostrVars, truncVars, retryVars, evVars, hbVars, mcpVars,
                   editVars, stepVars, procVars, relayVars>>

\* the same call made through tools/call of the server
ExecuteInServer(tool, how, stdout, stderr) ==
    /\ cRuns < MaxRuns
    /\ cRuns' = cRuns + 1
    /\ cRun' = [tool |-> tool, how |-> how, stdout |-> stdout, stderr |-> stderr]
    /\ cVia' = "server"
    /\ cIsError' = (runCommandError(how) # <<>>)
    /\ cText' = ServerResult(runCommandOutput(stdout, stderr), runCommandError(how))
    /\ UNCHANGED <<fsVars, loopVars, nostrVars, truncVars, retryVars, evVars, hbVars, mcpVars,
                   editVars, stepVars, procVars, relayVars>>

InitCmd == LoopAtRest /\ FsAtRest /\ NostrAtRest /\ ExtAtRest

NextCmd ==
    \E tool \in CmdTools, how \in RunEnds, stdout \in CmdTexts, stderr \in CmdTexts :
        \/ ExecuteInLoop(tool, how, stdout, stderr)
        \/ ExecuteInServer(tool, how, stdout, stderr)

SpecCmd == InitCmd /\ [][NextCmd]_vars

(***************************************************************************)
(* execFileEdit on file contents.  A content is the sequence of its bytes. *)
(***************************************************************************)
Bytes == {"a", "b"}
EditPaths == {"f", "g", "n"}
Searches == {<<>>} \cup {<<x>> : x \in Bytes} \cup {<<x, y>> : x, y \in Bytes}
Replacements == {<<>>, <<"a">>, <<"c">>, <<"c", "a">>}
Contents == Searches \cup {<<x, y, z>> : x, y, z \in Bytes}
\* how os.WriteFile ends: written in full, not opened, or failed after the
\* truncation with k bytes written
WriteEnds == {"ok", "open", "short"}

\* the byte offsets at which sub starts in content
OccurrencesAt(content, sub) ==
    {i \in 1..(Len(content) + 1 - Len(sub)) : SubSeq(content, i, i + Len(sub) - 1) = sub}

Min(S) == CHOOSE x \in S : \A y \in S : x <= y
Max(S) == CHOOSE x \in S : \A y \in S : x >= y

SpliceAt(content, i, old, new) ==
    SubSeq(content, 1, i - 1) \o new \o SubSeq(content, i + Len(old), Len(content))

\* variant of ReplaceFirst: the last occurrence is the one replaced
ReplaceLast(content, old, new) ==
    IF OccurrencesAt(content, old) = {} THEN content
    ELSE SpliceAt(content, Max(OccurrencesAt(content, old)), old, new)

\* strings.Replace(content, old, new, 1), old not empty
ReplaceFirst(content, old, new) ==
    IF OccurrencesAt(content, old) = {} THEN content
    ELSE SpliceAt(content, Min(OccurrencesAt(content, old)), old, new)

\* os.WriteFile(path, data, 0644) on an existing file: O_TRUNC, then the write
WriteFileContent(old, data, end, k) ==
    IF end = "ok" THEN data
    ELSE IF end = "open" THEN old
    ELSE SubSeq(data, 1, k)

\* the n-th operation was a file_edit with these arguments and this outcome
EditRes(path, search, replace, err) ==
    [n |-> eOps + 1, path |-> path, search |-> search, replace |-> replace, err |-> err]

\* execFileEdit with a path that passed safePath
FileEdit(path, search, replace, end, k) ==
    /\ eOps < MaxEdits
    /\ eOps' = eOps + 1
    /\ IF path = "" \/ search = <<>>
       THEN /\ eRes' = EditRes(path, search, replace, "args")
            /\ UNCHANGED eFiles
       ELSE IF path \notin DOMAIN eFiles
       THEN /\ eRes' = EditRes(path, search, replace, "read")
            /\ UNCHANGED eFiles
       ELSE IF ~Contains(eFiles[path], search)
       THEN /\ eRes' = EditRes(path, search, replace, "searchmiss")
            /\ UNCHANGED eFiles
       ELSE LET newContent == ReplaceFirst(eFiles[path], search, replace)
            IN  /\ k < Len(newContent) \/ (k = 0 /\ end # "short")
                /\ eFiles' = [eFiles EXCEPT ![path] =
                                 WriteFileContent(eFiles[path], newContent, end, k)]
                /\ eRes' = EditRes(path, search, replace,
                                   IF end = "ok" THEN "none" ELSE "write")
    /\ UNCHANGED <<fsVars, loopVars, nostrVars, truncVars, retryVars, evVars, hbVars, mcpVars,
                   cmdVars, stepVars, procVars, relayVars>>

\* execFileWrite of a whole content, the write succeeding
FileWrite(path, content) ==
    /\ eOps < MaxEdits
    /\ eOps' = eOps + 1
    /\ eFiles' = [p \in (DOMAIN eFiles) \cup {path} |-> IF p = path THEN content ELSE eFiles[p]]
    /\ UNCHANGED eRes
    /\ UNCHANGED <<fsVars, loopVars, nostrVars, truncVars, retryVars, evVars, hbVars, mcpVars,
                   cmdVars, stepVars, procVars, relayVars>>

InitEdit == LoopAtRest /\ FsAtRest /\ NostrAtRest /\ ExtAtRest

NextEdit ==
    \/ \E path \in EditPaths \cup {""}, search \in Searches, replace \in Replacements,
          end \in WriteEnds, k \in 0..2 : FileEdit(path, search, replace, end, k)
    \/ \E path \in {"f", "g"}, content \in Contents : FileWrite(path, content)

SpecEdit == InitEdit /\ [][NextEdit]_vars

(***************************************************************************)
(* One Spool shared by goroutines: Enqueue, Drain, ArchiveOld and Count    *)
(* step by step, with the mutex, the system calls on the spool file, and   *)
(* the death of the process.  A line is its event id, its attempt count    *)
(* and whether it is older than the maxAge of ArchiveOld.                  *)
(***************************************************************************)
SpoolOps == {"Enqueue", "Drain", "ArchiveOld", "Count"}
\* what Drain does with an entry: the backoff test skips it, or
\* pool.Publish returns nil or an error
EntryOutcomes == {"skip", "ok", "fail"}

SpoolLine(id) == [id |-> id, attempts |-> 0, old |-> FALSE]

Goto(g, pc) == gpc' = [gpc EXCEPT ![g] = pc]
Returns(g, err, n) ==
    gres' = [gres EXCEPT ![g] = [op |-> gop[g], err |-> err, id |-> gloc[g].id, n |-> n]]

othersOfSteps == <<fsVars, loopVars, nostrVars, truncVars, retryVars, evVars, hbVars, mcpVars,
                   cmdVars, editVars, procVars, relayVars>>

\* a goroutine calls a method of the spool; an Enqueue brings a new event
SpoolCall(g, op) ==
    /\ ~kCrashed
    /\ gpc[g] = "idle"
    /\ kCalls < MaxSpoolCalls
    /\ kCalls' = kCalls + 1
    /\ gop' = [gop EXCEPT ![g] = op]
    /\ gloc' = [gloc EXCEPT ![g] =
                   [NoLocals EXCEPT !.id = IF op = "Enqueue" THEN kCalls + 2 ELSE 0]]
    /\ Goto(g, "lock")
    /\ UNCHANGED <<kFile, kArchive, kMu, gres, kDelivered, kCrashed>>
    /\ UNCHANGED othersOfSteps

\* variant of MutexFree: Lock does not wait
MutexIgnored == TRUE

\* s.mu.Lock() returns when the mutex is free
MutexFree == kMu = 0

\* s.mu.Lock()
SpoolLock(g) ==
    /\ ~kCrashed
    /\ gpc[g] = "lock"
    /\ MutexFree
    /\ kMu' = g
    /\ Goto(g, IF gop[g] \in {"Enqueue", "Count"} THEN "count" ELSE "read")
    /\ UNCHANGED <<kFile, kArchive, gop, gloc, gres, kDelivered, kCrashed, kCalls>>
    /\ UNCHANGED othersOfSteps

\* countLocked, in Count and in Enqueue with its hard limit test
SpoolCount(g) ==
    /\ ~kCrashed
    /\ gpc[g] = "count"
    /\ IF gop[g] = "Count"
       THEN Returns(g, "none", Len(kFile)) /\ Goto(g, "unlock")
       ELSE IF Len(kFile) >= StepHardLimit
       THEN Returns(g, "hardlimit", Len(kFile)) /\ Goto(g, "unlock")
       ELSE Goto(g, "append") /\ UNCHANGED gres
    /\ UNCHANGED <<kFile, kArchive, kMu, gop, gloc, kDelivered, kCrashed, kCalls>>
    /\ UNCHANGED othersOfSteps

\* Enqueue: os.OpenFile(O_APPEND) and the write of the line
SpoolAppend(g) ==
    /\ ~kCrashed
    /\ gpc[g] = "append"
    /\ kFile' = Append(kFile, SpoolLine(gloc[g].id))
    /\ Returns(g, "none", 0)
    /\ Goto(g, "unlock")
    /\ UNCHANGED <<kArchive, kMu, gop, gloc, kDelivered, kCrashed, kCalls>>
    /\ UNCHANGED othersOfSteps

\* readAllLocked in Drain and in ArchiveOld, and the split of ArchiveOld
SpoolRead(g) ==
    /\ ~kCrashed
    /\ gpc[g] = "read"
    /\ IF gop[g] = "Drain"
       THEN IF Len(kFile) = 0
            THEN Returns(g, "none", 0) /\ Goto(g, "unlock") /\ UNCHANGED gloc
            ELSE /\ gloc' = [gloc EXCEPT ![g].entries = kFile, ![g].idx = 1]
                 /\ Goto(g, "publish")
                 /\ UNCHANGED gres
       ELSE LET old == SelectSeq(kFile, LAMBDA l : l.old)
                active == SelectSeq(kFile, LAMBDA l : ~l.old)
            IN  IF Len(old) = 0
                THEN Returns(g, "none", 0) /\ Goto(g, "unlock") /\ UNCHANGED gloc
                ELSE /\ gloc' = [gloc EXCEPT ![g].entries = kFile, ![g].old = old,
                                             ![g].target = active]
                     /\ Goto(g, "archive")
                     /\ UNCHANGED gres
    /\ UNCHANGED <<kFile, kArchive, kMu, gop, kDelivered, kCrashed, kCalls>>
    /\ UNCHANGED othersOfSteps

\* Drain: one turn of the loop over the entries
SpoolPublish(g, outcome) ==
    /\ ~kCrashed
    /\ gpc[g] = "publish"
    /\ LET entry == gloc[g].entries[gloc[g].idx]
           remaining ==
               IF outcome = "skip" THEN Append(gloc[g].remaining, entry)
               ELSE IF outcome = "fail"
               THEN Append(gloc[g].remaining, [entry EXCEPT !.attempts = @ + 1])
               ELSE gloc[g].remaining
           last == gloc[g].idx = Len(gloc[g].entries)
       IN  /\ outcome = "skip" => entry.attempts > 0
           /\ kDelivered' = IF outcome = "ok" THEN kDelivered \cup {entry.id} ELSE kDelivered
           /\ gloc' = [gloc EXCEPT ![g].remaining = remaining,
                                   ![g].idx = @ + 1,
                                   ![g].target = IF last THEN remaining ELSE @]
           /\ Goto(g, IF last THEN "open" ELSE "publish")
    /\ UNCHANGED <<kFile, kArchive, kMu, gop, gres, kCrashed, kCalls>>
    /\ UNCHANGED othersOfSteps

\* ArchiveOld: the old entries are appended to the archive file
SpoolArchive(g) ==
    /\ ~kCrashed
    /\ gpc[g] = "archive"
    /\ kArchive' = kArchive \o gloc[g].old
    /\ Goto(g, "open")
    /\ UNCHANGED <<kFile, kMu, gop, gloc, gres, kDelivered, kCrashed, kCalls>>
    /\ UNCHANGED othersOfSteps

\* writeAllLocked: os.OpenFile(s.path, O_WRONLY|O_CREATE|O_TRUNC, 0600)
RewriteOpen(g) ==
    /\ ~kCrashed
    /\ gpc[g] = "open"
    /\ kFile' = <<>>
    /\ gloc' = [gloc EXCEPT ![g].idx = 1]
    /\ Goto(g, "write")
    /\ UNCHANGED <<kArchive, kMu, gop, gres, kDelivered, kCrashed, kCalls>>
    /\ UNCHANGED othersOfSteps

\* writeAllLocked: f.Write of the next line; after the last one the method
\* returns nil
RewriteWrite(g) ==
    /\ ~kCrashed
    /\ gpc[g] = "write"
    /\ IF gloc[g].idx <= Len(gloc[g].target)
       THEN /\ kFile' = Append(kFile, gloc[g].target[gloc[g].idx])
            /\ gloc' = [gloc EXCEPT ![g].idx = @ + 1]
            /\ UNCHANGED <<gpc, gres>>
       ELSE /\ Returns(g, "none", Len(gloc[g].entries) - Len(gloc[g].target))
            /\ Goto(g, "unlock")
            /\ UNCHANGED <<kFile, gloc>>
    /\ UNCHANGED <<kArchive, kMu, gop, kDelivered, kCrashed, kCalls>>
    /\ UNCHANGED othersOfSteps

\* writeAllLocked: f.Write fails (disk full); its result is not looked at
RewriteWriteFails(g) ==
    /\ ~kCrashed
    /\ gpc[g] = "write"
    /\ gloc[g].idx <= Len(gloc[g].target)
    /\ gloc' = [gloc EXCEPT ![g].idx = @ + 1]
    /\ UNCHANGED <<kFile, kArchive, kMu, gop, gpc, gres, kDelivered, kCrashed, kCalls>>
    /\ UNCHANGED othersOfSteps

\* the deferred s.mu.Unlock()
SpoolUnlock(g) ==
    /\ ~kCrashed
    /\ gpc[g] = "unlock"
    /\ kMu' = IF kMu = g THEN 0 ELSE kMu
    /\ Goto(g, "idle")
    /\ UNCHANGED <<kFile, kArchive, gop, gloc, gres, kDelivered, kCrashed, kCalls>>
    /\ UNCHANGED othersOfSteps

\* the process dies
Crash ==
    /\ ~kCrashed
    /\ kCrashed' = TRUE
    /\ UNCHANGED <<kFile, kArchive, kMu, gop, gpc, gloc, gres, kDelivered, kCalls>>
    /\ UNCHANGED othersOfSteps

InitSpoolSteps == LoopAtRest /\ FsAtRest /\ NostrAtRest /\ ExtAtRest

NextSpoolSteps ==
    \/ \E g \in Goroutines, op \in SpoolOps : SpoolCall(g, op)
    \/ \E g \in Goroutines : SpoolLock(g)
    \/ \E g \in Goroutines : SpoolCount(g)
    \/ \E g \in Goroutines : SpoolAppend(g)
    \/ \E g \in Goroutines : SpoolRead(g)
    \/ \E g \in Goroutines, outcome \in EntryOutcomes : SpoolPublish(g, outcome)
    \/ \E g \in Goroutines : SpoolArchive(g)
    \/ \E g \in Goroutines : RewriteOpen(g)
    \/ \E g \in Goroutines : RewriteWrite(g)
    \/ \E g \in Goroutines : SpoolUnlock(g)

\* the goroutines of one process, all system calls succeeding
SpecSpoolSteps == InitSpoolSteps /\ [][NextSpoolSteps]_vars

NextRewrite ==
    \/ NextSpoolSteps
    \/ \E g \in Goroutines : RewriteWriteFails(g)
    \/ Crash

\* the same with failing writes and the death of the process
SpecRewrite == InitSpoolSteps /\ [][NextRewrite]_vars

(***************************************************************************)
(* The tools that pass paths to git and grep.  What the subprocess itself  *)
(* reads and writes is not followed; that it was started is recorded.      *)
(***************************************************************************)
\* the paths given to git_commit: none, one, or two of these
CommitArgs ==
    {[abs |-> FALSE, comps |-> c] : c \in {<<"d">>, <<"..">>, <<"l", "n">>}}
    \cup {[abs |-> TRUE, comps |-> <<"o", "n">>]}
CommitPathLists == SeqsUpTo(CommitArgs, 2)
\* a path parameter that may be left empty
OptionalPaths == {<<>>} \cup {<<a>> : a \in CommitArgs}

Proc(cmd, args) == [cmd |-> cmd, args |-> args]

\* variant of FirstRejected: only the first path is checked
FirstRejectedHead(f, wd, paths) ==
    IF paths # <<>> /\ ~safePath(f, wd, paths[1]).ok THEN 1 ELSE 0

\* the loop over params.Paths: the first path safePath rejects, 0 if none
FirstRejected(f, wd, paths) ==
    IF \E k \in DOMAIN paths : ~safePath(f, wd, paths[k]).ok
    THEN CHOOSE k \in DOMAIN paths :
            /\ ~safePath(f, wd, paths[k]).ok
            /\ \A j \in 1..(k - 1) : safePath(f, wd, paths[j]).ok
    ELSE 0

SafePaths(f, wd, paths) == [k \in DOMAIN paths |-> safePath(f, wd, paths[k]).path]

ProcRes(tool, err) == [tool |-> tool, path |-> <<>>, err |-> err]

\* execGitCommit: message, paths; git add and git commit may fail
execGitCommit(hasMessage, paths, addOk) ==
    /\ fsOps < MaxFsOps
    /\ fsOps' = fsOps + 1
    /\ pArgs' = paths
    /\ IF ~hasMessage
       THEN toolRes' = ProcRes("git_commit", "args") /\ UNCHANGED procs
       ELSE IF FirstRejected(fs, workDir, paths) # 0
       THEN toolRes' = ProcRes("git_commit", "outside") /\ UNCHANGED procs
       ELSE LET add == IF Len(paths) > 0
                       THEN Proc("git", <<"add">> \o SafePaths(fs, workDir, paths))
                       ELSE Proc("git", <<"add", "-A">>)
            IN  IF ~addOk
                THEN /\ procs' = Append(procs, add)
                     /\ toolRes' = ProcRes("git_commit", "add")
                ELSE /\ procs' = procs \o <<add, Proc("git", <<"commit", "-m">>)>>
                     /\ toolRes' = ProcRes("git_commit", "none")
    /\ UNCHANGED <<workDir, fs, written, readFrom>>
    /\ UNCHANGED <<loopVars, nostrVars, truncVars, retryVars, evVars, hbVars, mcpVars, cmdVars,
                   editVars, stepVars, relayVars>>

\* execGitDiff with an optional path
execGitDiff(staged, path) ==
    /\ fsOps < MaxFsOps
    /\ fsOps' = fsOps + 1
    /\ pArgs' = path
    /\ IF FirstRejected(fs, workDir, path) # 0
       THEN toolRes' = ProcRes("git_diff", "outside") /\ UNCHANGED procs
       ELSE /\ procs' = Append(procs,
                           Proc("git", <<"diff">> \o (IF staged THEN <<"--staged">> ELSE <<>>)
                                       \o (IF path # <<>>
                                           THEN <<"--">> \o SafePaths(fs, workDir, path)
                                           ELSE <<>>)))
            /\ toolRes' = ProcRes("git_diff", "none")
    /\ UNCHANGED <<workDir, fs, written, readFrom>>
    /\ UNCHANGED <<loopVars, nostrVars, truncVars, retryVars, evVars, hbVars, mcpVars, cmdVars,
                   editVars, stepVars, relayVars>>

\* execFileSearch: grep -rn in the directory the path names, or in workDir
execFileSearch(hasPattern, path) ==
    /\ fsOps < MaxFsOps
    /\ fsOps' = fsOps + 1
    /\ pArgs' = path
    /\ IF ~hasPattern
       THEN toolRes' = ProcRes("file_search", "args") /\ UNCHANGED procs
       ELSE IF FirstRejected(fs, workDir, path) # 0
       THEN toolRes' = ProcRes("file_search", "outside") /\ UNCHANGED procs
       ELSE /\ procs' = Append(procs,
                           Proc("grep", <<"-rn">> \o (IF path # <<>>
                                                     THEN SafePaths(fs, workDir, path)
                                                     ELSE <<workDir>>)))
            /\ toolRes' = ProcRes("file_search", "none")
    /\ UNCHANGED <<workDir, fs, written, readFrom>>
    /\ UNCHANGED <<loopVars, nostrVars, truncVars, retryVars, evVars, hbVars, mcpVars, cmdVars,
                   editVars, stepVars, relayVars>>

NextPaths ==
    \/ \E arg \in PathArgs : execFileWrite(arg)
    \/ \E arg \in PathArgs : execFileRead(arg)
    \/ \E arg \in PathArgs, found \in BOOLEAN : execFileEdit(arg, found)
    \/ \E arg \in PathArgs : execFileList(arg)
    \/ \E hasMessage \in BOOLEAN, paths \in CommitPathLists, addOk \in BOOLEAN :
          execGitCommit(hasMessage, paths, addOk)
    \/ \E staged \in BOOLEAN, path \in OptionalPaths : execGitDiff(staged, path)
    \/ \E hasPattern \in BOOLEAN, path \in OptionalPaths : execFileSearch(hasPattern, path)

\* every tool of the executor that takes a path
SpecPaths == InitFs /\ [][NextPaths]_vars

(***************************************************************************)
(* NewRelayPool and RelayPool.Reconnect.  Here `accepting` holds the       *)
(* relays whose connection in the pool is up (relay.IsConnected()).        *)
(***************************************************************************)
\* NewRelayPool: the relays of the configuration that connected, in order
NewRelayPool(urls, up) == SelectSeq(urls, LAMBDA r : r \in up)

InPool(rs) == {rs[k] : k \in DOMAIN rs}

\* RelayPool.Reconnect: every relay of p.writeRelays that is not connected is
\* connected again if it can be reached, and put back in its place
Reconnect ==
    /\ reconnects < MaxReconnects
    /\ reconnects' = reconnects + 1
    /\ IF poolClosed
       THEN UNCHANGED accepting
       ELSE accepting' = accepting \cup {r \in InPool(writeRelays) :
                                            r \notin accepting /\ r \in reachable}
    /\ UNCHANGED <<writeRelays, poolClosed, received, offers, poolRes, signCalls>>
    /\ UNCHANGED <<writeURLs, reachable, publisherVars, spoolVars>>
    /\ UNCHANGED <<fsVars, loopVars, truncVars, retryVars, evVars, hbVars, mcpVars, cmdVars,
                   editVars, stepVars, procVars>>

\* a relay goes down, which ends its connection, or comes up again
RelayReachable(r) ==
    /\ reachable' = IF r \in reachable THEN reachable \ {r} ELSE reachable \cup {r}
    /\ accepting' = IF r \in reachable THEN accepting \ {r} ELSE accepting
    /\ UNCHANGED <<writeRelays, poolClosed, received, offers, poolRes, signCalls>>
    /\ UNCHANGED <<writeURLs, reconnects, publisherVars, spoolVars>>
    /\ UNCHANGED <<fsVars, loopVars, truncVars, retryVars, evVars, hbVars, mcpVars, cmdVars,
                   editVars, stepVars, procVars>>

\* NewPublisher: NewRelayPool with any of the relays reachable, NewSpool
InitReconnect ==
    /\ LoopAtRest
    /\ FsAtRest
    /\ TruncAtRest /\ RetryAtRest /\ handed = <<>> /\ HeartbeatAtRest /\ McpAtRest
    /\ CmdAtRest /\ EditAtRest /\ SpoolStepsAtRest /\ ProcsAtRest
    /\ writeURLs = [k \in 1..NumRelays |-> k]
    /\ reachable \in SUBSET Relays
    /\ reconnects = 0
    /\ writeRelays = NewRelayPool(writeURLs, reachable)
    /\ poolClosed = FALSE
    /\ accepting = reachable
    /\ received = [r \in Relays |-> <<>>]
    /\ offers = <<>>
    /\ poolRes = PoolOk
    /\ signCalls = 0
    /\ inflight = NoCall
    /\ pubCalls = 0
    /\ pubRes = NoPubRes
    /\ spoolFile = <<>>
    /\ archiveFile = <<>>
    /\ now = 0
    /\ drains = 0
    /\ drainRes = NoDrainRes

NextReconnect ==
    \/ \E e \in EventInputs, m \in Methods : PublishSend(e, m)
    \/ PublishSpool
    \/ Drain
    \/ Reconnect
    \/ \E r \in Relays : RelayReachable(r)
    \/ ClosePool

SpecReconnect == InitReconnect /\ [][NextReconnect]_vars

(***************************************************************************)
(* Specifications                                                          *)
(***************************************************************************)
Init == LoopAtRest /\ FsAtRest /\ NostrAtRest /\ ExtAtRest

\* the loop with concurrent AssignWork callers, Stop and cancellation
Next ==
    \/ Start
    \/ IdleTick
    \/ RecvWork
    \/ BeginTask
    \/ IterTop(ConcMaxIterations)
    \/ ChatReturn(ConcMaxToolCalls)
    \/ ToolStart
    \/ ToolFinish
    \/ TaskReturn
    \/ CompletionCallback
    \/ ExitLoop
    \/ CloseDone
    \/ \E c \in Callers : AssignRead(c)
    \/ \E c \in Callers : AssignSend(c)
    \/ StopCancel
    \/ StopWait
    \/ CancelCtx

Spec == Init /\ [][Next]_vars

\* one caller hands the loop a task; the task runs to its end
InitTask == Init

NextTask ==
    \/ Start
    \/ RecvWork
    \/ BeginTask
    \/ IterTop(MaxIterations)
    \/ ChatReturn(MaxToolCalls)
    \/ ToolStart
    \/ ToolFinish
    \/ TaskReturn
    \/ CompletionCallback
    \/ AssignRead(1)
    \/ AssignSend(1)
    \/ CancelCtx
    \/ ExitLoop
    \/ CloseDone

SpecTask == InitTask /\ [][NextTask]_vars

\* one caller, Stop and cancellation, with the progress the scheduler gives:
\* the driver goroutine keeps running (client.Chat and Execute return, both
\* being bounded by the context and by timeouts), and a select whose
\* ctx.Done() case is ready again and again eventually takes it
InitStop == Init

NextStop ==
    \/ Start
    \/ RecvWork
    \/ BeginTask
    \/ IterTop(ConcMaxIterations)
    \/ ChatReturn(ConcMaxToolCalls)
    \/ ToolStart
    \/ ToolFinish
    \/ TaskReturn
    \/ CompletionCallback
    \/ ExitLoop
    \/ CloseDone
    \/ AssignRead(1)
    \/ AssignSend(1)
    \/ StopCancel
    \/ StopWait
    \/ CancelCtx

DriverFairness ==
    /\ WF_vars(Start)
    /\ WF_vars(BeginTask)
    /\ WF_vars(IterTop(ConcMaxIterations))
    /\ WF_vars(ChatReturn(ConcMaxToolCalls))
    /\ WF_vars(ToolStart)
    /\ WF_vars(ToolFinish)
    /\ WF_vars(TaskReturn)
    /\ WF_vars(CompletionCallback)
    /\ WF_vars(CloseDone)
    /\ SF_vars(ExitLoop)

SpecStop == InitStop /\ [][NextStop]_vars /\ DriverFairness

(***************************************************************************)
(* C1: every location a path-taking tool reads or writes after safePath    *)
(* accepted its argument lies inside the worktree once symbolic links are  *)
(* resolved, also when the target or its parent does not exist yet.        *)
(***************************************************************************)
InsideWorktree(p) == IsPrefix(ResolvedWorkDir(fs, workDir), p)

C1_AccessInsideWorktree == \A p \in written \cup readFrom : InsideWorktree(p)

(***************************************************************************)
(* C2: an AssignWork call that finds the loop in state working returns the *)
(* Busy error and changes nothing: the running task, the driver and the    *)
(* work queue are as before, whatever the other callers and the driver do. *)
(***************************************************************************)
C2_Step ==
    \A c \in Callers :
        (state = "working" /\ acount'[c] = acount[c] + 1)
        => /\ ares'[c] = "Busy"
           /\ apc'[c] = "idle"
           /\ workCh' = workCh
           /\ state' = state
           /\ currentTask' = currentTask
           /\ driverVars' = driverVars

C2_BusyWhenWorking == [][C2_Step]_vars

C2_Witness ==
    \E c \in Callers :
        ares[c] = "Busy" /\ state = "working" /\ currentTask # NoTask /\ dpc = "chat"

(***************************************************************************)
(* C3: at most one task is being executed, at most one further task waits  *)
(* in the work queue, and an AssignWork caller at its send never blocks:   *)
(* it can always take a step.                                              *)
(***************************************************************************)
Executing == Len(started) - Len(callbacks)

C3_OneRunningOneQueued ==
    /\ Executing \in {0, 1}
    /\ Len(workCh) <= 1
    /\ \A c \in Callers : apc[c] = "send" => ENABLED AssignSend(c)

C3_Witness == state = "working" /\ dpc = "exec" /\ Len(workCh) = 1

(***************************************************************************)
(* C4: in every conversation the loop hands to the model, and in the       *)
(* conversation it holds before truncation and when the task ends, an      *)
(* assistant turn with k tool calls at position p is followed at p+1..p+k  *)
(* by tool turns carrying the ids of those calls, in order.                *)
(***************************************************************************)
WellPaired(ms) ==
    \A p \in 1..Len(ms) :
        (ms[p].role = "assistant" /\ Len(ms[p].calls) > 0)
        => /\ p + Len(ms[p].calls) <= Len(ms)
           /\ \A k \in 1..Len(ms[p].calls) :
                 /\ ms[p + k].role = "tool"
                 /\ ms[p + k].tcid = ms[p].calls[k].id

HasSummary(ms) ==
    \E p \in 1..Len(ms) : ms[p].role = "user" /\ ms[p].len # TaskLen

C4_ToolTurnsFollowCalls ==
    /\ WellPaired(sent)
    /\ dpc \notin {"tool", "exec"} => WellPaired(messages)

C4_Witness ==
    /\ dpc = "chat"
    /\ HasSummary(sent)
    /\ \E p \in 1..Len(sent) : sent[p].role = "assistant" /\ Len(sent[p].calls) = 2

(***************************************************************************)
(* C5: the tool calls of a response run one after the other in the order   *)
(* of the response: a call starts only when the tool turns of all earlier  *)
(* calls are appended, and the next model call is made only when the tool  *)
(* turns of all calls are appended.                                        *)
(***************************************************************************)
Ids(cs) == [k \in 1..Len(cs) |-> cs[k].id]
TailIds(ms, n) == [k \in 1..n |-> ms[Len(ms) - n + k].tcid]

TurnsAppended(n) ==
    /\ Len(messages) > n
    /\ TailIds(messages, n) = SubSeq(Ids(calls), 1, n)
    /\ messages[Len(messages) - n].role = "assistant"
    /\ messages[Len(messages) - n].calls = calls

C5_SequentialToolCalls ==
    /\ dpc = "tool" => execLog = SubSeq(Ids(calls), 1, callJ - 1) /\ TurnsAppended(callJ - 1)
    /\ dpc = "exec" => execLog = SubSeq(Ids(calls), 1, callJ) /\ TurnsAppended(callJ - 1)
    /\ (dpc = "chat" /\ chatCalls > 1)
       => /\ calls # <<>>
          /\ execLog = Ids(calls)
          /\ Len(messages) >= Len(calls)
          /\ TailIds(messages, Len(calls)) = Ids(calls)

C5_Witness == dpc = "exec" /\ callJ = 2 /\ Len(execLog) = 2

(***************************************************************************)
(* C6 as stated: a response without tool calls, at any iteration, ends the *)
(* task successfully at that iteration with the assistant turn appended    *)
(* last; on iteration 1 with a system prompt the conversation then has     *)
(* exactly the turns system, user, assistant and one model call was made.  *)
(***************************************************************************)
ZeroCallResponse == lastResp.ok /\ lastResp.calls = <<>>

CompletedNow ==
    /\ taskErr = "none"
    /\ dpc \notin {"iter", "chat", "tool", "exec"}
    /\ messages # <<>>
    /\ messages[Len(messages)].role = "assistant"
    /\ messages[Len(messages)].calls = <<>>
    /\ (iteration = 1 /\ hasSystemPrompt)
       => /\ Len(messages) = 3
          /\ messages[1].role = "system"
          /\ messages[2].role = "user"
          /\ chatCalls = 1

BudgetHit == lastResp.usage # NoUsage /\ totalTokens > MaxTokensPerTask

C7_IterationBound ==
    /\ chatCalls <= MaxIterations
    /\ (dpc \in {"ret", "cb"} /\ iterI = MaxIterations) => taskErr = "maxiter"

C7_Witness == dpc = "ret" /\ taskErr = "maxiter" /\ chatCalls = MaxIterations

(***************************************************************************)
(* C8: the token total starts at zero with the task and grows by the usage *)
(* of each response; a total above the budget ends the task with the       *)
(* budget error before the assistant turn is appended or a tool call is    *)
(* set up; a total equal to the budget does not.                           *)
(***************************************************************************)
C8_Step ==
    /\ (dpc = "begin" /\ dpc' # "begin") => totalTokens' = 0
    /\ (dpc = "chat" /\ lastResp'.ok)
       => LET u   == lastResp'.usage
              tot == IF u = NoUsage THEN totalTokens ELSE totalTokens + u
          IN  /\ totalTokens' = tot
              /\ IF tot > MaxTokensPerTask /\ u # NoUsage
                 THEN /\ taskErr' = "budget"
                      /\ dpc' = "ret"
                      /\ messages' = messages
                      /\ calls' = calls
                      /\ execLog' = execLog
                 ELSE /\ taskErr' # "budget"
                      /\ Len(messages') = Len(messages) + 1
                      /\ messages'[Len(messages')].role = "assistant"
    /\ (dpc # "chat" /\ dpc # "begin") => totalTokens' = totalTokens
    /\ taskErr' = "budget" => totalTokens' > MaxTokensPerTask

C8_TokenBudget == [][C8_Step]_vars

C8_Witness ==
    /\ dpc = "ret"
    /\ taskErr = "budget"
    /\ iteration = 3
    /\ totalTokens = MaxTokensPerTask + 1

(***************************************************************************)
(* C9: when Execute returns an error for a tool call, exactly one tool     *)
(* turn with that call's id and a text starting with "Error" is appended,  *)
(* the task does not end, the next call of the response runs and after the *)
(* last call the next iteration begins.                                    *)
(***************************************************************************)
C9_Step ==
    (dpc = "exec" /\ dpc' # "exec" /\ lastExec'.err # "none")
    => /\ Len(messages') = Len(messages) + 1
       /\ SubSeq(messages', 1, Len(messages)) = messages
       /\ messages'[Len(messages')].role = "tool"
       /\ messages'[Len(messages')].tcid = calls[callJ].id
       /\ messages'[Len(messages')].isErr
       /\ lastExec'.id = calls[callJ].id
       /\ taskErr' = "none"
       /\ IF callJ < Len(calls)
          THEN dpc' = "tool" /\ callJ' = callJ + 1
          ELSE dpc' = "iter" /\ iterI' = iterI + 1

C9_ToolErrorBecomesTurn == [][C9_Step]_vars

C9_Witness ==
    /\ dpc = "exec"
    /\ callJ = 2
    /\ lastExec.err # "none"
    /\ messages[Len(messages)].isErr

(***************************************************************************)
(* C10: when a task ends with an error of the model call, of the token     *)
(* budget or of the iteration bound, the driver sets the state to idle,    *)
(* invokes the completion callback once with the task and that error, and  *)
(* goes back to waiting for work; the callback is invoked nowhere else.    *)
(***************************************************************************)
TaskFailures == {"llm", "llmcancel", "budget", "maxiter"}

C10_Step ==
    /\ (dpc = "ret" /\ dpc' # "ret" /\ taskErr \in TaskFailures)
       => /\ state' = "idle"
          /\ dpc' = "cb"
          /\ callbacks' = callbacks
    /\ (dpc = "cb" /\ dpc' # "cb" /\ taskErr \in TaskFailures)
       => /\ Len(callbacks') = Len(callbacks) + 1
          /\ SubSeq(callbacks', 1, Len(callbacks)) = callbacks
          /\ callbacks'[Len(callbacks')].task = task
          /\ callbacks'[Len(callbacks')].err = taskErr
          /\ state' = "idle"
          /\ dpc' = "select"
    /\ callbacks' # callbacks => dpc = "cb"

C10_FailedTaskLeavesLoopIdle == [][C10_Step]_vars

C10_Witness ==
    /\ Len(started) = 2
    /\ Len(callbacks) = 1
    /\ callbacks[1].err \in TaskFailures
    /\ state = "working"
    /\ dpc = "chat"

(***************************************************************************)
(* C11: once Stop has been called on a started loop, or the context given  *)
(* to Start is cancelled, the loop eventually reaches state stopped and    *)
(* stays there.  Stop returns success at once when the state it reads is   *)
(* stopped; otherwise it cancels the context and waits: it returns success *)
(* only when the driver has exited (done is closed) and the timeout error  *)
(* only when the driver has not exited.                                    *)
(***************************************************************************)
C11_Step ==
    /\ (spc = "idle" /\ spc' # "idle") =>
          IF state = "stopped"
          THEN spc' = "done" /\ sres' = "ok" /\ cancelled' = cancelled
          ELSE spc' = "wait" /\ cancelled'
    /\ (spc = "wait" /\ spc' = "done") =>
          /\ sres' = "ok" <=> doneClosed
          /\ sres' = "timeout" <=> ~doneClosed
          /\ doneClosed => dpc = "exited"
    /\ (state = "stopped" /\ dpc \in {"close", "exited"}) => state' = "stopped"

C11_StopReachesStopped ==
    /\ [][C11_Step]_vars
    /\ []((cancelled /\ dpc # "new") => <>[](state = "stopped"))

C11_Witness ==
    /\ spc = "done"
    /\ sres = "ok"
    /\ cancelled
    /\ doneClosed
    /\ state = "stopped"
    /\ Len(started) = 1

(***************************************************************************)
(* C12: when the context is cancelled while a task runs, the error the     *)
(* completion callback receives is the context's cancellation error        *)
(* itself, whether the cancellation is seen at the top of an iteration or  *)
(* by the model call: it is never a new error that wraps the cancellation. *)
(***************************************************************************)
IsCancellation(err) == err = CtxErr \/ Unwrap(err) = CtxErr

C12_CancelVerbatim ==
    \A k \in DOMAIN callbacks :
        IsCancellation(callbacks[k].err) => callbacks[k].err = CtxErr

(***************************************************************************)
(* C13: when the event is signed, the broadcast fails (every write relay   *)
(* rejects, or none is connected) and the spool counts fewer lines than    *)
(* its hard limit, Publish appends exactly one entry for the event, with   *)
(* attempts 0 and no last attempt, and returns success.  A later Drain     *)
(* while a connected relay accepts removes that entry and hands the event  *)
(* to each accepting relay exactly once.                                   *)
(***************************************************************************)
Occurrences(seq, x) == Cardinality({k \in DOMAIN seq : seq[k] = x})

EntryIds(lines) == {lines[k].id : k \in {n \in DOMAIN lines : lines[n].t = "entry"}}

\* entries that no Drain has tried yet
FreshIds(lines) ==
    {lines[k].id : k \in {n \in DOMAIN lines :
                            /\ lines[n].t = "entry"
                            /\ lines[n].attempts = 0
                            /\ lines[n].lastAttempt = NoTime}}

C13_Step ==
    /\ (inflight # NoCall /\ inflight' = NoCall /\ countLocked(spoolFile) < HardLimit) =>
          /\ pubRes'.res = "ok"
          /\ pubRes'.ev = inflight.ev
          /\ spoolFile' = Append(spoolFile, spoolFile'[Len(spoolFile')])
          /\ LET entry == spoolFile'[Len(spoolFile')]
             IN  /\ entry.t = "entry"
                 /\ entry.id = inflight.ev.id
                 /\ entry.attempts = 0
                 /\ entry.lastAttempt = NoTime
                 /\ Occurrences([k \in DOMAIN spoolFile' |-> spoolFile'[k].id], entry.id) = 1
    /\ (drains' # drains /\ ~poolClosed
          /\ \E k \in DOMAIN writeRelays : writeRelays[k] \in accepting) =>
          \A id \in FreshIds(spoolFile) :
              /\ id \notin EntryIds(spoolFile')
              /\ \A k \in DOMAIN writeRelays :
                    LET r == writeRelays[k]
                    IN  Occurrences(received'[r], id) =
                          Occurrences(received[r], id) + (IF r \in accepting THEN 1 ELSE 0)

PublishReturns ==
    /\ inflight' = NoCall
    /\ pubCalls' # pubCalls \/ inflight # NoCall
    /\ pubRes'.method = "Publish"

\* the broadcast of the returning call failed and Enqueue wrote nothing
BroadcastAndSpoolFailed ==
    /\ inflight # NoCall
    /\ inflight.err # PoolOk
    /\ spoolFile' = spoolFile

C14_OriginalStep ==
    PublishReturns => (pubRes'.res # "ok" <=> BroadcastAndSpoolFailed)

C14_Step ==
    PublishReturns =>
        /\ pubRes'.res \in {"ok", "sign", "both"}
        /\ pubRes'.res = "sign" <=> pubRes'.ev.id = NoEventId
        /\ pubRes'.res = "both" <=> BroadcastAndSpoolFailed

BroadcastStep ==
    /\ pubCalls' # pubCalls
    /\ inflight' # NoCall \/ pubRes'.res = "ok"

C15_Step ==
    BroadcastStep =>
        LET id == signCalls'
            offeredTo == {offers'[k] : k \in DOMAIN offers'}
        IN  /\ offers' = (IF poolClosed THEN <<>> ELSE writeRelays)
            /\ \A r \in Relays :
                  received'[r] = IF r \in offeredTo /\ r \in accepting
                                 THEN Append(received[r], id)
                                 ELSE received[r]
            /\ poolRes' = PoolOk <=> offeredTo \cap accepting # {}
            /\ Len(offers') > 0 =>
                  (poolRes' = PoolErr("allfailed", offers'[Len(offers')])
                     <=> offeredTo \cap accepting = {})

C15_FanOutToEveryRelay == [][C15_Step]_vars

C15_Witness ==
    /\ pubCalls = 1
    /\ offers = <<1, 2>>
    /\ poolRes = PoolOk
    /\ received[1] = <<>>
    /\ received[2] = <<1>>

(***************************************************************************)
(* C16: when the active spool already holds at least the hard-limit number *)
(* of entries, Enqueue fails and leaves the spool file as it is, so the    *)
(* Publish whose broadcast failed returns an error; no Enqueue ever takes  *)
(* the number of entries above the hard limit.                             *)
(***************************************************************************)
C16_Step ==
    (inflight # NoCall /\ inflight' = NoCall) =>
        /\ Len(readAllLocked(spoolFile)) >= HardLimit =>
              /\ spoolFile' = spoolFile
              /\ pubRes'.res = "both"
        /\ Len(readAllLocked(spoolFile')) <= HardLimit

C16_HardLimit == [][C16_Step]_vars

(***************************************************************************)
(* C17: an entry leaves the active spool only in a Drain in which at least *)
(* one relay accepted its event, or in an ArchiveOld that appended it to   *)
(* the archive.  A failed publish attempt, the backoff gate, the rewrite   *)
(* of the file and a line that does not parse remove no entry.             *)
(***************************************************************************)
DeliveredInStep(id) ==
    /\ drains' # drains
    /\ \E r \in Relays : Occurrences(received'[r], id) > Occurrences(received[r], id)

ArchivedInStep(id) ==
    /\ id \notin EntryIds(archiveFile)
    /\ id \in EntryIds(archiveFile')

C17_Step ==
    \A id \in EntryIds(spoolFile) \ EntryIds(spoolFile') :
        DeliveredInStep(id) \/ ArchivedInStep(id)

AllRelaysAccept ==
    /\ ~poolClosed
    /\ Len(writeRelays) > 0
    /\ \A k \in DOMAIN writeRelays : writeRelays[k] \in accepting

OutsideBackoffWindow(entry) ==
    \/ entry.lastAttempt = NoTime
    \/ now - entry.lastAttempt >= backoffDuration(entry.attempts)

C18_OriginalStep ==
    (drains' # drains /\ AllRelaysAccept) => EntryIds(spoolFile') = {}

C18_Original == [][C18_OriginalStep]_vars

C18_Step ==
    (/\ drains' # drains
     /\ AllRelaysAccept
     /\ \A k \in DOMAIN spoolFile :
           spoolFile[k].t = "entry" => OutsideBackoffWindow(spoolFile[k]))
    => /\ EntryIds(spoolFile') = {}
       /\ drainRes' = [sent |-> Len(readAllLocked(spoolFile)), failed |-> 0]

C18_DrainEmptiesSpool == [][C18_Step]_vars

C18_Witness ==
    /\ drains = 2
    /\ now = TickStep
    /\ pubCalls = 1
    /\ drainRes = [sent |-> 1, failed |-> 0]
    /\ EntryIds(spoolFile) = {}
    /\ received[2] = <<1>>

(***************************************************************************)
(* C19: every event of a replaceable kind that the publisher has offered   *)
(* to the relays or written to the spool, through Publish or through       *)
(* PublishReplaceable, carries exactly one "d" tag.                        *)
(***************************************************************************)
\* the kinds the event kind allocation lists as replaceable
ReplaceableKinds == {KindLogStatus, KindLifecycle}

ExactlyOneDTag(ev) == ev.kind \in ReplaceableKinds => ev.dtags = 1

C19_ReplaceableHasOneDTag ==
    /\ \A k \in DOMAIN spoolFile :
          spoolFile[k].t = "entry" => ExactlyOneDTag(spoolFile[k])
    /\ inflight # NoCall => ExactlyOneDTag(inflight.ev)
    /\ pubRes.res \in {"ok", "both"} => ExactlyOneDTag(pubRes.ev)

(***************************************************************************)
(* C20: PublishReplaceable on an event without a "d" tag returns the       *)
(* invalid-replaceable error and does nothing else: no signing, no offer   *)
(* to a relay, no spool entry.  On an event with a "d" tag it does what    *)
(* Publish does: it signs, and if signing succeeds it broadcasts, returns  *)
(* success when a relay accepted and goes on to the spool otherwise.       *)
(***************************************************************************)
\* the call that starts in this step: its method and its event
CalledMethod == IF inflight' # NoCall THEN inflight'.method ELSE pubRes'.method
CalledEvent == IF inflight' # NoCall THEN inflight'.ev ELSE pubRes'.ev

C20_Step ==
    (pubCalls' # pubCalls /\ CalledMethod = "PublishReplaceable") =>
        IF CalledEvent.dtags = 0
        THEN /\ pubRes'.res = "invalid"
             /\ pubRes'.ev.id = NoEventId
             /\ UNCHANGED <<signCalls, offers, poolRes, received, inflight, spoolFile,
                            archiveFile>>
        ELSE /\ signCalls' = signCalls + 1
             /\ UNCHANGED <<spoolFile, archiveFile>>
             /\ \/ /\ pubRes'.res = "sign"
                   /\ CalledEvent.id = NoEventId
                   /\ UNCHANGED <<offers, poolRes, received, inflight>>
                \/ /\ CalledEvent.id = signCalls'
                   /\ C15_Step
                   /\ IF poolRes' = PoolOk
                      THEN pubRes'.res = "ok" /\ inflight' = NoCall
                      ELSE inflight'.err = poolRes' /\ pubRes' = pubRes

C20_ReplaceableNeedsDTag == [][C20_Step]_vars

C20_Witness ==
    /\ pubCalls = 1
    /\ pubRes.method = "PublishReplaceable"
    /\ pubRes.res = "invalid"
    /\ pubRes.ev.dtags = 0
    /\ signCalls = 0
    /\ spoolFile = <<>>


(***************************************************************************)
(* C22: for every conversation C and its truncation T(C): T(C) has no more *)
(* turns than C; if the first turn of C has role system, so has the first  *)
(* turn of T(C); and the final min(6, len(C)) turns of T(C) are equal,     *)
(* content included, to the final min(6, len(C)) turns of C.               *)
(* C22_Original states the claim as written.  Truncate cuts the content of *)
(* a long tool turn also when that turn is one of the final six, so the    *)
(* amended C22_TruncateKeepsShape states the last part as: the final turns *)
(* of T(C) are the final turns of C, in the same order, each one unchanged *)
(* or, if it is a tool turn longer than 2000 characters, with its content  *)
(* cut to its first 2000 characters followed by the marker.  The witness   *)
(* is a truncation that replaced turns by a summary and cut a tool turn.   *)
(***************************************************************************)
TruncateStep == truncCalls' = truncCalls + 1

KeptTail(ms) == IF Len(ms) < MinKeepEnd THEN Len(ms) ELSE MinKeepEnd

\* the turn that is k-th from the end
FromEnd(ms, k) == ms[Len(ms) + 1 - k]

NoLongerAndSystemKept ==
    /\ Len(conv') <= Len(conv)
    /\ (conv # <<>> /\ conv[1].role = "system")
            => (conv' # <<>> /\ conv'[1].role = "system")

Cut(m) == [m EXCEPT !.len = MaxToolResult + TruncMarkerLen]

C22_OriginalStep ==
    TruncateStep =>
        /\ NoLongerAndSystemKept
        /\ Len(conv') >= KeptTail(conv)
        /\ \A k \in 1..KeptTail(conv) : FromEnd(conv', k) = FromEnd(conv, k)

C22_Original == [][C22_OriginalStep]_vars

C22_Step ==
    TruncateStep =>
        /\ NoLongerAndSystemKept
        /\ Len(conv') >= KeptTail(conv)
        /\ \A k \in 1..KeptTail(conv) :
              \/ FromEnd(conv', k) = FromEnd(conv, k)
              \/ /\ FromEnd(conv, k).role = "tool"
                 /\ FromEnd(conv, k).len > MaxToolResult
                 /\ FromEnd(conv', k) = Cut(FromEnd(conv, k))

C22_TruncateKeepsShape == [][C22_Step]_vars

C22_Witness ==
    /\ truncCalls = 1
    /\ Len(conv) = MinKeepEnd + 2
    /\ conv[1].role = "system"
    /\ \E k \in 3..Len(conv) :
          conv[k].role = "tool" /\ conv[k].len = MaxToolResult + TruncMarkerLen

(***************************************************************************)
(* C23: truncation is idempotent: for every conversation C,                *)
(* T(T(C)) = T(C), including when T(C) is still above the usable token     *)
(* budget and whether or not C starts with a system turn.                  *)
(***************************************************************************)
C23_Step == TruncateStep => Truncate(conv') = conv'

C23_TruncateIdempotent == [][C23_Step]_vars


(***************************************************************************)
(* C24: when the inner chat call fails with a context cancellation or      *)
(* deadline error, or with an error whose message is 4xx-shaped (contains  *)
(* 400/401/403/404 or "api error 4"), the retry decorator never retries:   *)
(* it returns that error after exactly one inner call and without          *)
(* sleeping.  Stated on every state of a Chat call on the decorator: such  *)
(* a failure is the last inner call, no timer runs after it, and the call  *)
(* has returned that error.                                                *)
(***************************************************************************)
FourXXShaped(err) ==
    LET msg == ToLower(err.msg)
    IN  \/ Contains(msg, <<"4", "0", "0">>)
        \/ Contains(msg, <<"4", "0", "1">>)
        \/ Contains(msg, <<"4", "0", "3">>)
        \/ Contains(msg, <<"4", "0", "4">>)
        \/ Contains(msg, <<"api", " ", "error", " ", "4">>)

NeverRetried(err) ==
    ~err.ok /\ (err.ctx \in {"cancel", "deadline"} \/ FourXXShaped(err))

C24_NoRetryOnCancelOr4xx ==
    rMax >= 1 =>
        \A k \in 1..Len(rOutcomes) :
            NeverRetried(rOutcomes[k]) =>
                /\ k = Len(rOutcomes)
                /\ rpc = "done"
                /\ rRes = rOutcomes[k]

(***************************************************************************)
(* C25: with max retries n >= 1 the retry decorator makes at most n+1      *)
(* inner chat calls for one chat; it returns the first successful response *)
(* (one "API error 500" followed by a success yields the success with      *)
(* n = 2); if all n+1 calls fail with retryable errors it returns the last *)
(* of those errors; with n <= 0 the inner client is called exactly once.   *)
(* The witness is the 500-then-success run with n = 2.                     *)
(***************************************************************************)
AllRetryableFailures ==
    \A k \in 1..Len(rOutcomes) : ~rOutcomes[k].ok /\ isRetryableLLMError(rOutcomes[k])

C25_RetryBound ==
    /\ rMax >= 1 =>
        /\ Len(rOutcomes) <= rMax + 1
        /\ \A k \in 1..Len(rOutcomes) :
              rOutcomes[k].ok =>
                  /\ k = Len(rOutcomes)
                  /\ rpc = "done"
                  /\ rRes = rOutcomes[k]
        /\ (Len(rOutcomes) = rMax + 1 /\ AllRetryableFailures) =>
              (rpc = "done" /\ rRes = rOutcomes[rMax + 1])
    /\ (rMax <= 0 /\ rpc = "done") => (Len(rOutcomes) = 1 /\ rRes = rOutcomes[1])

C25_Witness ==
    /\ rMax = 2
    /\ rpc = "done"
    /\ Len(rOutcomes) = 2
    /\ ~rOutcomes[1].ok
    /\ Contains(rOutcomes[1].msg, <<"5", "0", "0">>)
    /\ rRes = ChatOk
    /\ rSleeps = 1


(***************************************************************************)
(* C21: every event that the system constructs and hands to the publisher  *)
(* (log/status, lifecycle, convoy, issue mirror, protocol, work item,      *)
(* group/queue/channel definitions, channel creation and channel messages, *)
(* profile and relay lists) carries the protocol-version tag ["gt","1"].   *)
(***************************************************************************)
HasTag(ev, t) == \E k \in 1..Len(ev.tags) : ev.tags[k] = t

C21_EveryEventHasVersionTag ==
    \A k \in 1..Len(handed) : HasTag(handed[k].ev, Tag("gt", <<"1">>))

(***************************************************************************)
(* C27: every lifecycle event (kind 30316) the system produces, whether    *)
(* from the periodic heartbeat, from stop(), from the death notice or from *)
(* retiring an agent identity, has the d-tag value <rig>/<role>/<instance>:*)
(* its only "d" tag is the agent's rig and role and one further name, the  *)
(* instance, joined by "/".                                                *)
(***************************************************************************)
DValues(ev) == {ev.tags[k].value : k \in {i \in 1..Len(ev.tags) : ev.tags[i].name = "d"}}

IsLifecycleKey(d, a) ==
    LET prefix == a.rig \o <<"/">> \o a.role \o <<"/">>
    IN  /\ Len(d) = Len(prefix) + 1
        /\ SubSeq(d, 1, Len(prefix)) = prefix
        /\ d[Len(d)] # "/"

C27_LifecycleDTag ==
    \A k \in 1..Len(handed) :
        handed[k].ev.kind = KindLifecycle =>
            /\ Cardinality(DValues(handed[k].ev)) = 1
            /\ \A d \in DValues(handed[k].ev) : IsLifecycleKey(d, handed[k].agent)


(***************************************************************************)
(* C26: the events published because of one stop() call on a started       *)
(* heartbeat publisher are, in order, exactly one event whose status is    *)
(* retiring and then, after the ticker goroutine has been cancelled and    *)
(* waited for (at most 5 s), exactly one event whose status is dead; the   *)
(* dead event is the last lifecycle event this publisher emits, under any  *)
(* interleaving with ticks and with concurrent setStatus / setCurrentIssue *)
(* calls.  Stated on the state in which Stop has returned: the events Stop *)
(* published are a retiring and then a dead one, and the last event of     *)
(* the publisher is that dead one, also in every later state.              *)
(***************************************************************************)
StopEvents == SelectSeq(hbEvents, LAMBDA e : e.by = "stop")

C26_StopPublishesRetiringThenDead ==
    hpc = "stopped" =>
        /\ StopEvents = <<LifecycleEvent("retiring", "stop"), LifecycleEvent("dead", "stop")>>
        /\ hbEvents[Len(hbEvents)] = LifecycleEvent("dead", "stop")


(***************************************************************************)
(* C28: when a bearer token is configured, a request to any endpoint other *)
(* than health whose Authorization header is not exactly "Bearer <token>"  *)
(* is answered 401 and causes no tool listing, no tool execution and no    *)
(* event stream; the health endpoint answers without a token; when no      *)
(* token is configured every request is admitted.  The witness is a call   *)
(* request with a wrong token that was refused on a server with a          *)
(* registered tool.                                                        *)
(***************************************************************************)
RequestStep == mReqs' = mReqs + 1

C28_Step ==
    RequestStep =>
        /\ (mToken # "" /\ mResp'.endpoint # "health"
                /\ mResp'.auth # <<"Bearer ", mToken>>)
              => /\ mResp'.status = 401
                 /\ mLists' = mLists
                 /\ mExecs' = mExecs
                 /\ mStreams' = mStreams
        /\ mResp'.endpoint = "health" => mResp'.status = 200
        /\ mToken = "" => mResp'.status # 401

C28_BearerTokenRequired == [][C28_Step]_vars

C28_Witness ==
    /\ mToken = "secret"
    /\ mResp.endpoint = "call"
    /\ mResp.method = "POST"
    /\ mResp.auth = <<"Bearer ", "wrong">>
    /\ mResp.reqBody \in mTools
    /\ mResp.status = 401
    /\ mExecs = 0

(***************************************************************************)
(* C29: the tool list endpoint emits the full catalog, each registered     *)
(* tool once, in the order in which the tools were registered, on every    *)
(* call.                                                                   *)
(***************************************************************************)
C29_Step ==
    (RequestStep /\ mResp'.endpoint = "list" /\ mResp'.status = 200)
        => mResp'.body = mRegOrder

C29_ListInRegistrationOrder == [][C29_Step]_vars

(***************************************************************************)
(* C30: on the tool-call endpoint every tool-level failure (tool name not  *)
(* registered, handler returned an error) is answered with status 200 and  *)
(* a body with isError true carrying the error text, whereas               *)
(* transport-level problems (wrong HTTP method, undecodable body, missing  *)
(* or wrong token) are answered with a 4xx status and no tool is executed. *)
(* The witness is a call of an unregistered tool answered 200 with         *)
(* isError.                                                                *)
(***************************************************************************)
TransportProblem(r) ==
    \/ (mToken # "" /\ r.auth # <<"Bearer ", mToken>>)
    \/ r.method # "POST"
    \/ r.reqBody = "undecodable"

C30_Step ==
    (RequestStep /\ mResp'.endpoint = "call") =>
        IF TransportProblem(mResp')
        THEN /\ mResp'.status \in 400..499
             /\ mExecs' = mExecs
        ELSE /\ mResp'.reqBody \notin mTools
                  => /\ mResp'.status = 200
                     /\ mResp'.isError
                     /\ mResp'.body = <<"Unknown tool: ", mResp'.reqBody>>
                     /\ mExecs' = mExecs
             /\ (mResp'.reqBody \in mTools /\ mResp'.outcome = "error")
                  => /\ mResp'.status = 200
                     /\ mResp'.isError
                     /\ mResp'.body[1] = "Error: "
                     /\ mExecs' = mExecs + 1

C30_ToolErrorsAre200 == [][C30_Step]_vars

C30_Witness ==
    /\ mResp.endpoint = "call"
    /\ mResp.reqBody = "nosuch"
    /\ mTools # {}
    /\ mResp.status = 200
    /\ mResp.isError

(***************************************************************************)
(* C31: when the subprocess of a tool exits non-zero or runs into its      *)
(* deadline, the output it produced before failing is part of the tool     *)
(* result that goes back to the model, through the agent loop and through  *)
(* the tool server alike, and a deadline is reported as a timeout.         *)
(***************************************************************************)
SubprocessFailed == cVia # "none" /\ cRun.how \in {"exit", "timeout"}

C31_FailedCommandKeepsOutput ==
    SubprocessFailed =>
        /\ Contains(cText, runCommandOutput(cRun.stdout, cRun.stderr))
        /\ cRun.stdout # <<>> => Contains(cText, cRun.stdout)
        /\ cRun.how = "timeout" => Contains(cText, <<"command timed out after ">>)

(***************************************************************************)
(* C32: file-edit replaces the first occurrence of the search text and     *)
(* nothing else: the bytes before it, the bytes after it (later            *)
(* occurrences included) and every other file stay as they were; when the  *)
(* search text does not occur the call returns an error and no file        *)
(* changes.                                                                *)
(***************************************************************************)
EditStep == eOps' = eOps + 1 /\ eRes'.n = eOps'

OthersUnchanged(p) ==
    /\ DOMAIN eFiles' = DOMAIN eFiles
    /\ \A q \in DOMAIN eFiles : q # p => eFiles'[q] = eFiles[q]

C32_Step ==
    EditStep =>
        LET p == eRes'.path
            search == eRes'.search
            replace == eRes'.replace
        IN  /\ eRes'.err = "none" =>
                /\ p \in DOMAIN eFiles
                /\ OthersUnchanged(p)
                /\ \E i \in 1..Len(eFiles[p]) :
                      /\ SubSeq(eFiles[p], i, i + Len(search) - 1) = search
                      /\ \A j \in 1..(i - 1) :
                            SubSeq(eFiles[p], j, j + Len(search) - 1) # search
                      /\ Len(eFiles'[p]) = Len(eFiles[p]) - Len(search) + Len(replace)
                      /\ SubSeq(eFiles'[p], 1, i - 1) = SubSeq(eFiles[p], 1, i - 1)
                      /\ SubSeq(eFiles'[p], i, i + Len(replace) - 1) = replace
                      /\ SubSeq(eFiles'[p], i + Len(replace), Len(eFiles'[p]))
                            = SubSeq(eFiles[p], i + Len(search), Len(eFiles[p]))
            /\ (p \in DOMAIN eFiles /\ ~Contains(eFiles[p], search)) =>
                /\ eRes'.err = "searchmiss"
                /\ eFiles' = eFiles
            /\ eRes'.err \in {"searchmiss", "args", "read"} => eFiles' = eFiles

C32_EditReplacesFirstOccurrence == [][C32_Step]_vars

C32_Witness ==
    /\ eRes.err = "none"
    /\ eRes.path = "f"
    /\ eRes.search = <<"a", "b">>
    /\ eRes.replace = <<"c">>
    /\ eFiles["f"] = <<"c", "a", "b">>

(***************************************************************************)
(* C33: a drain handles each spool entry once, in file order.  An entry    *)
(* whose last attempt is less than backoff(attempts) ago (0, 30, 60, 120   *)
(* seconds for 0..3 attempts, 300 seconds from 4 on) is not offered and is *)
(* kept as it is; every other entry is offered to the pool once: dropped   *)
(* when the pool accepts it, and otherwise kept with one more attempt, the *)
(* last attempt set to now and the error recorded.  The kept entries stay  *)
(* in their order.                                                         *)
(***************************************************************************)
DrainStep == drains' = drains + 1

SpoolEntries(lines) == SelectSeq(lines, LAMBDA l : l.t = "entry")

BackoffTable(attempts) ==
    CASE attempts = 0 -> 0
      [] attempts = 1 -> 30
      [] attempts = 2 -> 60
      [] attempts = 3 -> 120
      [] OTHER -> 300

InBackoff(entry) ==
    entry.lastAttempt # NoTime /\ now - entry.lastAttempt < BackoffTable(entry.attempts)

\* the pool delivers an event when it is open and a connected relay accepts
PoolDelivers ==
    ~poolClosed /\ \E k \in DOMAIN writeRelays : writeRelays[k] \in accepting

AfterFailure(entry, line) ==
    /\ line.id = entry.id
    /\ line.attempts = entry.attempts + 1
    /\ line.lastAttempt = now
    /\ line.lastError # "none"
    /\ [line EXCEPT !.attempts = 0, !.lastAttempt = 0, !.lastError = ""]
         = [entry EXCEPT !.attempts = 0, !.lastAttempt = 0, !.lastError = ""]

C33_Step ==
    (DrainStep /\ SpoolEntries(spoolFile) # <<>>) =>
        LET entries == SpoolEntries(spoolFile)
            kept == SelectSeq(entries, LAMBDA e : InBackoff(e) \/ ~PoolDelivers)
            offered == {entries[k].id : k \in {n \in DOMAIN entries : ~InBackoff(entries[n])}}
        IN  /\ Len(spoolFile') = Len(kept)
            /\ \A k \in DOMAIN kept :
                  IF InBackoff(kept[k]) THEN spoolFile'[k] = kept[k]
                  ELSE AfterFailure(kept[k], spoolFile'[k])
            /\ \A r \in Relays, id \in EntryIds(spoolFile) :
                  Occurrences(received'[r], id) =
                      Occurrences(received[r], id)
                      + (IF /\ id \in offered
                            /\ ~poolClosed
                            /\ r \in accepting
                            /\ \E k \in DOMAIN writeRelays : writeRelays[k] = r
                         THEN 1 ELSE 0)
            /\ drainRes'.sent = Len(entries) - Len(kept)

C33_DrainHandlesEachEntryOnce == [][C33_Step]_vars

\* a drain has skipped one entry and recorded the failure of another
C33_Witness ==
    /\ drains > 0
    /\ Len(spoolFile) = 2
    /\ spoolFile[1].attempts = 4 /\ spoolFile[1].lastAttempt = 0
    /\ spoolFile[2].attempts = 3 /\ spoolFile[2].lastAttempt = 120

(***************************************************************************)
(* C34: Drain and ArchiveOld rewrite the active spool file atomically.     *)
(* When the process dies during the rewrite, or a write of the rewrite     *)
(* fails, the file holds either all the entries it held before or all the  *)
(* entries that remain, never nothing and never a part of them.            *)
(***************************************************************************)
RewriteBegun(g) ==
    /\ gop[g] \in {"Drain", "ArchiveOld"}
    /\ gpc[g] \in {"open", "write", "unlock"}
    /\ gloc[g].entries # <<>>

C34_RewriteIsAtomic ==
    \A g \in Goroutines :
        (RewriteBegun(g) /\ (kCrashed \/ gpc[g] = "unlock")) =>
            kFile \in {gloc[g].entries, gloc[g].target}

(***************************************************************************)
(* C35: Enqueue, Drain, ArchiveOld and Count of one spool exclude each     *)
(* other within the process: at most one goroutine is inside one of them.  *)
(* An event enqueued by one goroutine while another drains is in the spool *)
(* once the calls have returned, unless a drain delivered it.              *)
(***************************************************************************)
InsideSpool(g) == gpc[g] \notin {"idle", "lock"}

LineIds(lines) == {lines[k].id : k \in DOMAIN lines}

C35_SpoolCallsExclusive ==
    /\ \A g, h \in Goroutines : (InsideSpool(g) /\ InsideSpool(h)) => g = h
    /\ (\A g \in Goroutines : ~InsideSpool(g)) =>
           \A g \in Goroutines :
               (gres[g].op = "Enqueue" /\ gres[g].err = "none") =>
                   gres[g].id \in LineIds(kFile) \cup kDelivered

\* a goroutine has truncated the file in its drain while another one waits
\* for the mutex in Enqueue
C35_Witness ==
    /\ gop[1] = "Drain" /\ gpc[1] = "write" /\ kFile = <<>>
    /\ gloc[1].target # <<>>
    /\ gop[2] = "Enqueue" /\ gpc[2] = "lock"

(***************************************************************************)
(* C36: a tool that takes paths checks every one of them with safePath     *)
(* before it touches the file system or starts a subprocess.  When one of  *)
(* the paths is rejected, also one of several given to git_commit, the     *)
(* tool returns the error and has read, created and modified no file and   *)
(* started no subprocess.                                                  *)
(***************************************************************************)
ToolStep == fsOps' = fsOps + 1

FileTools == {"file_read", "file_write", "file_edit", "file_list"}

\* safePath rejects the cleaned absolute path
Rejects(absPath) ==
    HasDotDotPrefix(Rel(ResolvedWorkDir(fs, workDir), ResolvedOf(fs, absPath)))

\* the cleaned absolute paths of the arguments of the call made in this step
CallPaths ==
    IF toolRes'.tool \in FileTools THEN {toolRes'.path}
    ELSE {AbsPathOf(workDir, pArgs'[k]) : k \in DOMAIN pArgs'}

ArgumentsOk == toolRes'.err # "args"

C36_Step ==
    (ToolStep /\ ArgumentsOk /\ \E p \in CallPaths : Rejects(p)) =>
        /\ toolRes'.err = "outside"
        /\ fs' = fs
        /\ written' = written
        /\ readFrom' = readFrom
        /\ procs' = procs

C36_PathsCheckedBeforeAccess == [][C36_Step]_vars

\* git_commit was given an acceptable path and then one outside the worktree
C36_Witness ==
    /\ toolRes.tool = "git_commit"
    /\ toolRes.err = "outside"
    /\ Len(pArgs) = 2
    /\ safePath(fs, workDir, pArgs[1]).ok
    /\ ~safePath(fs, workDir, pArgs[2]).ok
    /\ procs = <<>>

(***************************************************************************)
(* C37: the status of the heartbeat publisher follows ready <-> busy ->    *)
(* retiring -> dead.  Once it is retiring it never goes back to ready or   *)
(* busy, and once it is dead it never changes, whatever the order of the   *)
(* calls of SetStatus, SetCurrentIssue and Stop.                           *)
(***************************************************************************)
C37_Step ==
    /\ hbStatus = "retiring" => hbStatus' \in {"retiring", "dead"}
    /\ hbStatus = "dead" => hbStatus' = "dead"

C37_StatusFollowsLifecycle == [][C37_Step]_vars

(***************************************************************************)
(* C38: in every conversation the loop passes to the model, each tool turn *)
(* comes after an assistant turn that holds the call with the id of that   *)
(* tool turn, with nothing but tool turns in between; truncation does not  *)
(* leave a tool turn behind whose assistant turn it dropped.               *)
(***************************************************************************)
HasOrigin(ms, p) ==
    \E q \in 1..(p - 1) :
        /\ ms[q].role = "assistant"
        /\ \A k \in (q + 1)..(p - 1) : ms[k].role = "tool"
        /\ \E c \in DOMAIN ms[q].calls : ms[q].calls[c].id = ms[p].tcid

ToolTurnsHaveOrigin(ms) ==
    \A p \in DOMAIN ms : ms[p].role = "tool" => HasOrigin(ms, p)

C38_ToolTurnsHaveOrigin == ToolTurnsHaveOrigin(sent)

(***************************************************************************)
(* C39: every task for which AssignWork returned nil is started by the     *)
(* driver of the loop exactly once.  It is never dropped, also when Stop   *)
(* or the cancellation of the context races with the assignment, and it is *)
(* never run twice.                                                        *)
(***************************************************************************)
\* the tasks whose AssignWork call has returned nil
AcceptedTasks == {NewTask(c, acount[c]) : c \in {d \in Callers : ares[d] = "ok"}}

\* the driver has returned from Start: it starts no further task
DriverGone == doneClosed

C39_AcceptedTaskRunsOnce ==
    /\ \A t \in AcceptedTasks : Occurrences(started, t) <= 1
    /\ DriverGone => \A t \in AcceptedTasks : Occurrences(started, t) = 1

(***************************************************************************)
(* C40: a write relay of the configuration that could not be connected     *)
(* when the pool was built is connected by a later Reconnect once it can   *)
(* be reached, so that the events spooled in the meantime are delivered by *)
(* a following drain.                                                      *)
(***************************************************************************)
ReconnectStep == reconnects' = reconnects + 1

Connected(rs, up) == {r \in InPool(rs) : r \in up}

C40_ReconnectStep ==
    (ReconnectStep /\ ~poolClosed) =>
        \A r \in InPool(writeURLs) : r \in reachable => r \in Connected(writeRelays', accepting')

C40_ReconnectConnectsConfiguredRelays == [][C40_ReconnectStep]_vars

=============================================================================
